---- MODULE Spec2Model ----
(***************************************************************************)
(* createDAO/v2-core: the DAOFactory contract (contracts/DAOFactory.sol),  *)
(* the CREATE2 deployment routine (scripts/utils/create2.js) and the       *)
(* deployment record store (scripts/utils/deployment-record.js), each as a *)
(* state machine with a specification of its own.                          *)
(*                                                                         *)
(*   SpecFactory  the factory on one chain: createDAO, getDAO, block time  *)
(*   SpecCreate2  deployViaCreate2 against a chain with other deployers    *)
(*   SpecRecord   writeDeploymentRecord / readDeploymentRecord on a disk   *)
(*                                                                         *)
(* keccak256 is modelled as collision free on the inputs that occur: a     *)
(* hash is the tuple or record of what was hashed.  Reads of the chain     *)
(* return the chain's state.                                               *)
(***************************************************************************)
EXTENDS Integers, Sequences, FiniteSets, TLC

VARIABLES
    \* ---- the chain the factory lives on
    now,            \* block.timestamp of the block being built
    code,           \* addresses that hold contract code created by the factory
    tokens,         \* DAOToken clone address -> its storage
    timelocks,      \* DAOTimelock clone address -> its storage
    governors,      \* DAOGovernor clone address -> its storage
    deployedDAOs,   \* DAOFactory.deployedDAOs
    creatorDAOs,    \* DAOFactory.creatorDAOs (creator -> DAOInfo[])
    created,        \* what each successful createDAO returned, in call order
    lastCall,       \* the last external call to the factory and its outcome
    \* ---- the chain and the script of scripts/utils/create2.js
    chainCode,      \* addresses with non-empty bytecode
    txs,            \* transactions sent by walletClient.sendTransaction, in order
    run,            \* the deployViaCreate2 call in progress (or finished)
    calls,          \* number of deployViaCreate2 calls started
    returned,       \* (salt, initCode) -> the address the first returning call gave
    \* ---- the disk of scripts/utils/deployment-record.js
    files,          \* path -> file content
    written,        \* history path -> the content first written there
    recordAt,       \* path -> the record object last written there
    writes,         \* number of writeDeploymentRecord calls made
    lastOp,         \* the last record-store call and its outcome
    \* ---- the explorer verification scripts
    vf,             \* the verification call in progress (or finished)
    \* ---- one DAO after its creation
    dao,            \* its token and governor storage, and the last call to them
    \* ---- create2.js, address prediction
    pred,           \* the last two predictions: their inputs and the address returned
    \* ---- the createDAO driver script
    drv,            \* its position, what it has read and what it holds
    \* ---- factoryDeterministic.js
    fd,             \* the deployFactoryDeterministic call in progress (or finished)
    \* ---- withRetries
    rt,             \* the withRetries call in progress (or finished)
    \* ---- the flow scripts
    flow            \* the deploy-and-create run and the verify-all run that follows it

factoryVars == <<now, code, tokens, timelocks, governors, deployedDAOs, creatorDAOs, created, lastCall>>
create2Vars == <<chainCode, txs, run, calls, returned>>
recordVars == <<files, written, recordAt, writes, lastOp>>
verifyVars == <<vf>>
earlyVars == <<factoryVars, create2Vars, recordVars>>
daoVars == <<dao>>
predVars == <<pred>>
driverVars == <<drv>>
deployVars == <<fd>>
retryVars == <<rt>>
flowVars == <<flow>>
laterVars == <<verifyVars, daoVars, predVars, driverVars, deployVars, retryVars, flowVars>>
exceptVerify == <<earlyVars, daoVars, predVars, driverVars, deployVars, retryVars, flowVars>>
exceptDao == <<earlyVars, verifyVars, predVars, driverVars, deployVars, retryVars, flowVars>>
exceptPred == <<earlyVars, verifyVars, daoVars, driverVars, deployVars, retryVars, flowVars>>
exceptDriver == <<earlyVars, verifyVars, daoVars, predVars, deployVars, retryVars, flowVars>>
exceptDeploy == <<factoryVars, recordVars, verifyVars, daoVars, predVars, driverVars, retryVars, flowVars>>
exceptRetry == <<earlyVars, verifyVars, daoVars, predVars, driverVars, deployVars, flowVars>>
exceptFlow == <<factoryVars, create2Vars, verifyVars, daoVars, predVars, driverVars, deployVars, retryVars>>
vars == <<factoryVars, create2Vars, recordVars, laterVars>>

(***************************************************************************)
(* Bounds of the model.                                                    *)
(***************************************************************************)
MaxTime == 1
MaxDAOs == 2
MaxCalls == 2
MaxWrites == 2
MaxOps == 3
MaxLogs == 2
MaxPrior == 1
MaxLater == 1
MaxRuns == 2

(***************************************************************************)
(*                              DAOFactory                                 *)
(***************************************************************************)

\* An address.  Clone addresses are CREATE2 addresses: a function of the
\* cloned implementation and of what the salt was hashed from.
Addr(kind, name, chain, creator, ts, tag) ==
    [kind |-> kind, name |-> name, chain |-> chain, creator |-> creator, ts |-> ts, tag |-> tag]

ZeroAddress == Addr("zero", "0x0", "", "", 0, "")
EOA(n) == Addr("eoa", n, "", "", 0, "")
FactoryAddress == Addr("contract", "DAOFactory", "", "", 0, "")
tokenImplementation == Addr("contract", "DAOToken", "", "", 0, "")
governorImplementation == Addr("contract", "DAOGovernor", "", "", 0, "")
timelockImplementation == Addr("contract", "DAOTimelock", "", "", 0, "")
Implementations == {tokenImplementation, governorImplementation, timelockImplementation}

ChainId == "chain"
Creators == {EOA("alice"), EOA("bob")}

CREATOR_ALLOCATION_PERCENT == 1

Names == {"", "x"}
Supplies == {0, 1, 250}
Periods == {0, 1}

CreateDAOParams ==
    [daoName : Names, tokenName : Names, tokenSymbol : Names, totalSupply : Supplies,
     votingDelay : {0}, votingPeriod : Periods, timelockDelay : Periods]

\* The fields of params that a check of createDAO rejects.
InvalidFields(params) ==
    {f \in {"totalSupply", "daoName", "tokenName", "tokenSymbol", "votingPeriod", "timelockDelay"} :
        \/ f = "totalSupply" /\ params.totalSupply = 0
        \/ f = "daoName" /\ params.daoName = ""
        \/ f = "tokenName" /\ params.tokenName = ""
        \/ f = "tokenSymbol" /\ params.tokenSymbol = ""
        \/ f = "votingPeriod" /\ params.votingPeriod = 0
        \/ f = "timelockDelay" /\ params.timelockDelay = 0}

\* The parameters the callers of the model send: at most two invalid fields at once.
InputParams == {params \in CreateDAOParams : Cardinality(InvalidFields(params)) <= 2}

EmptyFn == [x \in {} |-> 0]

Put(f, k, v) == [x \in DOMAIN f \cup {k} |-> IF x = k THEN v ELSE f[x]]

\* ---------------------------------------------------------------- DAOToken

balanceOf(t, a) == IF a \in DOMAIN t.balances THEN t.balances[a] ELSE 0

delegates(t, a) == IF a \in DOMAIN t.delegatee THEN t.delegatee[a] ELSE ZeroAddress

RECURSIVE SumBalances(_, _)
SumBalances(t, S) ==
    IF S = {} THEN 0
    ELSE LET a == CHOOSE x \in S : TRUE IN balanceOf(t, a) + SumBalances(t, S \ {a})

\* ERC20Votes: the votes of an account are the balances delegated to it.
getVotes(t, a) == SumBalances(t, {h \in DOMAIN t.balances : delegates(t, h) = a})

\* _update delegating the receiver to itself on every receipt.
TokenUpdateAlwaysDelegates(t, from, to, value) ==
    IF from # ZeroAddress /\ balanceOf(t, from) < value
    THEN [ok |-> FALSE, err |-> "ERC20InsufficientBalance", t |-> t]
    ELSE LET debited == IF from = ZeroAddress
                        THEN [t EXCEPT !.totalSupply = @ + value]
                        ELSE [t EXCEPT !.balances = Put(@, from, balanceOf(t, from) - value)]
             credited == IF to = ZeroAddress
                         THEN [debited EXCEPT !.totalSupply = @ - value]
                         ELSE [debited EXCEPT !.balances = Put(@, to, balanceOf(debited, to) + value)]
         IN  [ok |-> TRUE, err |-> "",
              t |-> IF to # ZeroAddress
                    THEN [credited EXCEPT !.hasReceivedTokens = @ \cup {to},
                                          !.delegatee = Put(@, to, to)]
                    ELSE credited]

\* DAOToken._update: ERC20Votes' update, then self-delegation of a first-time receiver.
TokenUpdate(t, from, to, value) ==
    IF from # ZeroAddress /\ balanceOf(t, from) < value
    THEN [ok |-> FALSE, err |-> "ERC20InsufficientBalance", t |-> t]
    ELSE LET debited == IF from = ZeroAddress
                        THEN [t EXCEPT !.totalSupply = @ + value]
                        ELSE [t EXCEPT !.balances = Put(@, from, balanceOf(t, from) - value)]
             credited == IF to = ZeroAddress
                         THEN [debited EXCEPT !.totalSupply = @ - value]
                         ELSE [debited EXCEPT !.balances = Put(@, to, balanceOf(debited, to) + value)]
             delegated == IF to # ZeroAddress /\ to \notin credited.hasReceivedTokens
                          THEN [credited EXCEPT !.hasReceivedTokens = @ \cup {to},
                                                !.delegatee = Put(@, to, to)]
                          ELSE credited
         IN  [ok |-> TRUE, err |-> "", t |-> delegated]

\* DAOToken.initialize: mints the total supply to mintTo_.
TokenInitialize(name_, symbol_, totalSupply_, mintTo_) ==
    TokenUpdate([name |-> name_, symbol |-> symbol_, totalSupply |-> 0, balances |-> EmptyFn,
                 delegatee |-> EmptyFn, hasReceivedTokens |-> {}],
                ZeroAddress, mintTo_, totalSupply_)

\* ERC20.transfer called by sender.
TokenTransfer(t, sender, to, value) ==
    IF to = ZeroAddress
    THEN [ok |-> FALSE, err |-> "ERC20InvalidReceiver", t |-> t]
    ELSE TokenUpdate(t, sender, to, value)

\* ERC20Votes.delegate called by account.
TokenDelegate(t, account, delegatee) ==
    [ok |-> TRUE, err |-> "", t |-> [t EXCEPT !.delegatee = Put(@, account, delegatee)]]

\* ------------------------------------------------------------- DAOTimelock

DEFAULT_ADMIN_ROLE == "DEFAULT_ADMIN_ROLE"
PROPOSER_ROLE == "PROPOSER_ROLE"
CANCELLER_ROLE == "CANCELLER_ROLE"
EXECUTOR_ROLE == "EXECUTOR_ROLE"

hasRole(tl, role, account) == <<role, account>> \in tl.roles

\* DAOTimelock.initialize: the timelock administers itself, admin_ is a second
\* admin, there is no proposer and address(0) is the executor.
TimelockInitialize(self, minDelay_, admin_) ==
    [minDelay |-> minDelay_,
     roles |-> {<<DEFAULT_ADMIN_ROLE, self>>}
               \cup (IF admin_ # ZeroAddress THEN {<<DEFAULT_ADMIN_ROLE, admin_>>} ELSE {})
               \cup {<<EXECUTOR_ROLE, ZeroAddress>>}]

\* AccessControl.grantRole and revokeRole: only an admin of the role (the
\* default admin, for every role of the timelock) may call them.
grantRole(tl, caller, role, account) ==
    IF ~hasRole(tl, DEFAULT_ADMIN_ROLE, caller)
    THEN [ok |-> FALSE, err |-> "AccessControlUnauthorizedAccount", tl |-> tl]
    ELSE [ok |-> TRUE, err |-> "", tl |-> [tl EXCEPT !.roles = @ \cup {<<role, account>>}]]

revokeRole(tl, caller, role, account) ==
    IF ~hasRole(tl, DEFAULT_ADMIN_ROLE, caller)
    THEN [ok |-> FALSE, err |-> "AccessControlUnauthorizedAccount", tl |-> tl]
    ELSE [ok |-> TRUE, err |-> "", tl |-> [tl EXCEPT !.roles = @ \ {<<role, account>>}]]

\* ------------------------------------------------------------- DAOGovernor

GovernorInitialize(name_, token_, timelock_, votingDelay_, votingPeriod_, proposalThreshold_, initialManager_) ==
    [name |-> name_, token |-> token_, timelock |-> timelock_, votingDelay |-> votingDelay_,
     votingPeriod |-> votingPeriod_, proposalThreshold |-> proposalThreshold_,
     quorumNumerator |-> 1, manager |-> initialManager_]

\* GovernorTimelockControl._executor: the timelock.
_executor(g) == g.timelock

\* A setManager that anyone may call.
setManagerUnchecked(g, sender, newManager) ==
    [ok |-> TRUE, err |-> "", g |-> [g EXCEPT !.manager = newManager]]

\* DAOGovernor.setManager called by sender.
setManager(g, sender, newManager) ==
    IF sender # _executor(g)
    THEN [ok |-> FALSE, err |-> "OnlyGovernance", g |-> g]
    ELSE [ok |-> TRUE, err |-> "", g |-> [g EXCEPT !.manager = newManager]]

\* A quorum of four percent.
quorumFourPercent(g, totalSupply) == (totalSupply * 4 * g.quorumNumerator) \div 100

\* GovernorVotesQuorumFraction.quorum: the numerator's share of the supply.
quorum(g, totalSupply) == (totalSupply * g.quorumNumerator) \div 100

\* -------------------------------------------------------------- DAOFactory

\* The contracts' storage a call reads and writes.
World ==
    [code |-> code, tokens |-> tokens, timelocks |-> timelocks, governors |-> governors,
     deployedDAOs |-> deployedDAOs, creatorDAOs |-> creatorDAOs]

Revert(e, w) ==
    [ok |-> FALSE, err |-> e, w |-> w, token |-> ZeroAddress, timelock |-> ZeroAddress,
     governor |-> ZeroAddress, adminInSetup |-> FALSE]

\* keccak256(abi.encode(block.chainid, creator, block.timestamp))
_generateSalt(creator, timestamp) ==
    [chainid |-> ChainId, creator |-> creator.name, timestamp |-> timestamp]

\* Clones.predictDeterministicAddress(implementation, keccak256(abi.encode(baseSalt, tag)))
predictDeterministicAddress(implementation, baseSalt, tag) ==
    Addr("clone", implementation.name, baseSalt.chainid, baseSalt.creator, baseSalt.timestamp, tag)

\* A cloneDeterministic that does not notice the address is taken.
cloneDeterministicUnchecked(deployed, implementation, baseSalt, tag) ==
    [ok |-> TRUE, err |-> "", instance |-> predictDeterministicAddress(implementation, baseSalt, tag)]

\* Clones.cloneDeterministic: CREATE2 fails, and the call reverts, when the
\* address already holds code.
cloneDeterministic(deployed, implementation, baseSalt, tag) ==
    LET instance == predictDeterministicAddress(implementation, baseSalt, tag)
    IN  IF instance \in deployed
        THEN [ok |-> FALSE, err |-> "FailedDeployment", instance |-> instance]
        ELSE [ok |-> TRUE, err |-> "", instance |-> instance]

_deployContracts(w, sender, timestamp, params) ==
    LET proposalThreshold == (params.totalSupply * CREATOR_ALLOCATION_PERCENT) \div 100
        baseSalt == _generateSalt(sender, timestamp)
        token == predictDeterministicAddress(tokenImplementation, baseSalt, "TOKEN")
        timelock == predictDeterministicAddress(timelockImplementation, baseSalt, "TIMELOCK")
        governor == predictDeterministicAddress(governorImplementation, baseSalt, "GOVERNOR")
        tc == cloneDeterministic(w.code, tokenImplementation, baseSalt, "TOKEN")
        ti == TokenInitialize(params.tokenName, params.tokenSymbol, params.totalSupply, FactoryAddress)
        lc == cloneDeterministic(w.code \cup {token}, timelockImplementation, baseSalt, "TIMELOCK")
        gc == cloneDeterministic(w.code \cup {token, timelock}, governorImplementation, baseSalt, "GOVERNOR")
    IN  IF ~tc.ok THEN Revert(tc.err, w)
        ELSE IF ~ti.ok THEN Revert(ti.err, w)
        ELSE IF ~lc.ok THEN Revert(lc.err, w)
        ELSE IF ~gc.ok THEN Revert(gc.err, w)
        ELSE [ok |-> TRUE, err |-> "",
              w |-> [w EXCEPT !.code = @ \cup {tc.instance, lc.instance, gc.instance},
                              !.tokens = Put(@, token, ti.t),
                              !.timelocks = Put(@, timelock,
                                                TimelockInitialize(timelock, params.timelockDelay,
                                                                   FactoryAddress)),
                              !.governors = Put(@, governor,
                                                GovernorInitialize(params.daoName, token, timelock,
                                                                   params.votingDelay,
                                                                   params.votingPeriod,
                                                                   proposalThreshold, sender))],
              token |-> token, timelock |-> timelock, governor |-> governor,
              adminInSetup |-> FALSE]

\* _configureTimelock without the revokeRole of line 250.
_configureTimelockNoRevoke(w, daoTimelock, governor) ==
    LET g1 == grantRole(w.timelocks[daoTimelock], FactoryAddress, PROPOSER_ROLE, governor)
        g2 == grantRole(g1.tl, FactoryAddress, CANCELLER_ROLE, governor)
    IN  IF ~g1.ok THEN [ok |-> FALSE, err |-> g1.err, w |-> w]
        ELSE IF ~g2.ok THEN [ok |-> FALSE, err |-> g2.err, w |-> w]
        ELSE [ok |-> TRUE, err |-> "", w |-> [w EXCEPT !.timelocks[daoTimelock] = g2.tl]]

_configureTimelock(w, daoTimelock, governor) ==
    LET g1 == grantRole(w.timelocks[daoTimelock], FactoryAddress, PROPOSER_ROLE, governor)
        g2 == grantRole(g1.tl, FactoryAddress, CANCELLER_ROLE, governor)
        g3 == revokeRole(g2.tl, FactoryAddress, DEFAULT_ADMIN_ROLE, FactoryAddress)
    IN  IF ~g1.ok THEN [ok |-> FALSE, err |-> g1.err, w |-> w]
        ELSE IF ~g2.ok THEN [ok |-> FALSE, err |-> g2.err, w |-> w]
        ELSE IF ~g3.ok THEN [ok |-> FALSE, err |-> g3.err, w |-> w]
        ELSE [ok |-> TRUE, err |-> "", w |-> [w EXCEPT !.timelocks[daoTimelock] = g3.tl]]

\* _distributeTokens with the creator's share rounded up.
_distributeTokensRoundUp(w, daoToken, timelock, sender, totalSupply) ==
    LET creatorAmount == (totalSupply * CREATOR_ALLOCATION_PERCENT + 99) \div 100
        treasuryAmount == totalSupply - creatorAmount
        t1 == TokenTransfer(w.tokens[daoToken], FactoryAddress, sender, creatorAmount)
        t2 == TokenTransfer(t1.t, FactoryAddress, timelock, treasuryAmount)
    IN  IF ~t1.ok THEN [ok |-> FALSE, err |-> t1.err, w |-> w]
        ELSE IF ~t2.ok THEN [ok |-> FALSE, err |-> t2.err, w |-> w]
        ELSE [ok |-> TRUE, err |-> "", w |-> [w EXCEPT !.tokens[daoToken] = t2.t]]

_distributeTokens(w, daoToken, timelock, sender, totalSupply) ==
    LET creatorAmount == (totalSupply * CREATOR_ALLOCATION_PERCENT) \div 100
        treasuryAmount == totalSupply - creatorAmount
        t1 == TokenTransfer(w.tokens[daoToken], FactoryAddress, sender, creatorAmount)
        t2 == TokenTransfer(t1.t, FactoryAddress, timelock, treasuryAmount)
    IN  IF ~t1.ok THEN [ok |-> FALSE, err |-> t1.err, w |-> w]
        ELSE IF ~t2.ok THEN [ok |-> FALSE, err |-> t2.err, w |-> w]
        ELSE [ok |-> TRUE, err |-> "", w |-> [w EXCEPT !.tokens[daoToken] = t2.t]]

creatorDAOsOf(w, creator) ==
    IF creator \in DOMAIN w.creatorDAOs THEN w.creatorDAOs[creator] ELSE <<>>

\* _recordDAO pushing to deployedDAOs only.
_recordDAONoCreatorList(w, token, timelock, governor, sender, daoName, timestamp) ==
    LET daoInfo == [token |-> token, timelock |-> timelock, governor |-> governor,
                    creator |-> sender, daoName |-> daoName, createdAt |-> timestamp]
    IN  [w EXCEPT !.deployedDAOs = Append(@, daoInfo)]

_recordDAO(w, token, timelock, governor, sender, daoName, timestamp) ==
    LET daoInfo == [token |-> token, timelock |-> timelock, governor |-> governor,
                    creator |-> sender, daoName |-> daoName, createdAt |-> timestamp]
    IN  [w EXCEPT !.deployedDAOs = Append(@, daoInfo),
                  !.creatorDAOs = Put(@, sender, Append(creatorDAOsOf(w, sender), daoInfo))]

\* The checks of createDAO without the one of the timelock delay.
ValidationErrorNoDelayCheck(params) ==
    IF params.totalSupply = 0 THEN "InvalidTotalSupply"
    ELSE IF params.daoName = "" THEN "EmptyDAOName"
    ELSE IF params.tokenName = "" THEN "EmptyTokenName"
    ELSE IF params.tokenSymbol = "" THEN "EmptyTokenSymbol"
    ELSE IF params.votingPeriod = 0 THEN "InvalidVotingPeriod"
    ELSE ""

\* The first failed check of createDAO, "" when the parameters pass them all.
ValidationError(params) ==
    IF params.totalSupply = 0 THEN "InvalidTotalSupply"
    ELSE IF params.daoName = "" THEN "EmptyDAOName"
    ELSE IF params.tokenName = "" THEN "EmptyTokenName"
    ELSE IF params.tokenSymbol = "" THEN "EmptyTokenSymbol"
    ELSE IF params.votingPeriod = 0 THEN "InvalidVotingPeriod"
    ELSE IF params.timelockDelay = 0 THEN "InvalidTimelockDelay"
    ELSE ""

\* createDAO after its checks and _deployContracts (d is what that returned):
\* _configureTimelock, _distributeTokens, _recordDAO and the return.
createDAOSetup(w, sender, timestamp, params, d) ==
    LET c == _configureTimelock(d.w, d.timelock, d.governor)
        t == _distributeTokens(c.w, d.token, d.timelock, sender, params.totalSupply)
        r == _recordDAO(t.w, d.token, d.timelock, d.governor, sender, params.daoName, timestamp)
    IN  IF ~d.ok THEN Revert(d.err, w)
        ELSE IF ~c.ok THEN Revert(c.err, w)
        ELSE IF ~t.ok THEN Revert(t.err, w)
        ELSE [ok |-> TRUE, err |-> "", w |-> r, token |-> d.token, timelock |-> d.timelock,
              governor |-> d.governor,
              adminInSetup |-> hasRole(d.w.timelocks[d.timelock], DEFAULT_ADMIN_ROLE, FactoryAddress)]

\* DAOFactory.createDAO, called by sender in a block of the given timestamp.
\* A revert anywhere in the call undoes the whole call.
createDAO(w, sender, timestamp, params) ==
    IF ValidationError(params) # "" THEN Revert(ValidationError(params), w)
    ELSE createDAOSetup(w, sender, timestamp, params,
                        _deployContracts(w, sender, timestamp, params))

getDAOCount == Len(deployedDAOs)

getDAOsByCreator(creator) == IF creator \in DOMAIN creatorDAOs THEN creatorDAOs[creator] ELSE <<>>

NoInfo ==
    [token |-> ZeroAddress, timelock |-> ZeroAddress, governor |-> ZeroAddress,
     creator |-> ZeroAddress, daoName |-> "", createdAt |-> 0]

\* DAOFactory.getDAO; Solidity indexes from 0, the sequence from 1.
getDAO(index) ==
    IF index >= Len(deployedDAOs)
    THEN [ok |-> FALSE, err |-> "IndexOutOfBounds", info |-> NoInfo]
    ELSE [ok |-> TRUE, err |-> "", info |-> deployedDAOs[index + 1]]

NoParams ==
    [daoName |-> "", tokenName |-> "", tokenSymbol |-> "", totalSupply |-> 0,
     votingDelay |-> 0, votingPeriod |-> 0, timelockDelay |-> 0]

NoCall ==
    [op |-> "none", caller |-> ZeroAddress, params |-> NoParams, index |-> 0,
     ok |-> TRUE, err |-> "", token |-> ZeroAddress, timelock |-> ZeroAddress,
     governor |-> ZeroAddress, info |-> NoInfo, adminInSetup |-> FALSE]

FactoryInit ==
    /\ now = 0
    /\ code = {}
    /\ tokens = EmptyFn
    /\ timelocks = EmptyFn
    /\ governors = EmptyFn
    /\ deployedDAOs = <<>>
    /\ creatorDAOs = EmptyFn
    /\ created = <<>>
    /\ lastCall = NoCall

\* A transaction calling createDAO is mined in the block being built.
CreateDAO ==
    \E sender \in Creators, params \in InputParams :
        LET r == createDAO(World, sender, now, params)
        IN  /\ Len(deployedDAOs) < MaxDAOs
            /\ code' = r.w.code
            /\ tokens' = r.w.tokens
            /\ timelocks' = r.w.timelocks
            /\ governors' = r.w.governors
            /\ deployedDAOs' = r.w.deployedDAOs
            /\ creatorDAOs' = r.w.creatorDAOs
            /\ created' = IF r.ok
                          THEN Append(created, [token |-> r.token, timelock |-> r.timelock,
                                                governor |-> r.governor, creator |-> sender,
                                                daoName |-> params.daoName, createdAt |-> now])
                          ELSE created
            /\ lastCall' = [NoCall EXCEPT !.op = "createDAO", !.caller = sender,
                                          !.params = params, !.ok = r.ok, !.err = r.err,
                                          !.token = r.token, !.timelock = r.timelock,
                                          !.governor = r.governor,
                                          !.adminInSetup = r.adminInSetup]
            /\ UNCHANGED now
            /\ UNCHANGED <<create2Vars, recordVars, laterVars>>

\* An eth_call of getDAO(index).
GetDAO ==
    \E index \in 0..(MaxDAOs + 1) :
        LET r == getDAO(index)
        IN  /\ lastCall' = [NoCall EXCEPT !.op = "getDAO", !.index = index,
                                          !.ok = r.ok, !.err = r.err, !.info = r.info]
            /\ UNCHANGED <<now, code, tokens, timelocks, governors, deployedDAOs, creatorDAOs, created>>
            /\ UNCHANGED <<create2Vars, recordVars, laterVars>>

\* The next block has a later timestamp.
AdvanceTime ==
    /\ now < MaxTime
    /\ now' = now + 1
    /\ UNCHANGED <<code, tokens, timelocks, governors, deployedDAOs, creatorDAOs, created, lastCall>>
    /\ UNCHANGED <<create2Vars, recordVars, laterVars>>

FactoryNext == CreateDAO \/ GetDAO \/ AdvanceTime


(***************************************************************************)
(*                     scripts/utils/create2.js                            *)
(***************************************************************************)

DETERMINISTIC_DEPLOYER == <<"0x4e59b44847b379578588920cA78FbF26c0B4956C">>

Salts == {"s1", "s2"}
\* Creation bytecode, a sequence of chunks of bytes; the constructor of
\* <<"reverting">> reverts.
InitCodes == {<<"i1">>, <<"i2">>, <<"reverting">>}

keccak256(x) == <<"keccak256", x>>

encodePacked(values) == values

\* getAddress(`0x${hash.slice(-40)}`): the last 20 bytes of the hash.
getAddress(hash) == <<"address", hash>>

\* The address computed without the salt.
computeCreate2AddressNoSalt(deployerAddress, salt, initCode) ==
    LET initCodeHash == keccak256(initCode)
        data == encodePacked(<<"0xff", deployerAddress, initCodeHash>>)
        hash == keccak256(data)
    IN  getAddress(hash)

computeCreate2Address(deployerAddress, salt, initCode) ==
    LET initCodeHash == keccak256(initCode)
        data == encodePacked(<<"0xff", deployerAddress, salt, initCodeHash>>)
        hash == keccak256(data)
    IN  getAddress(hash)

\* publicClient.getCode(address) is neither undefined nor "0x".
isContractDeployed(chain, address) == address \in chain

isDeployerAvailable(chain) == isContractDeployed(chain, DETERMINISTIC_DEPLOYER)

\* salt (32 bytes) followed by the init code.
buildDeploymentData(salt, initCode) == <<salt, initCode>>

\* What the chain does with a mined transaction: the deterministic deployment
\* proxy runs CREATE2 with the salt and init code of the data and reverts when
\* the creation fails (the address is taken, or the constructor reverts).
ExecuteTransaction(chain, tx) ==
    LET target == computeCreate2Address(tx.to, tx.data[1], tx.data[2])
    IN  IF tx.to \in chain /\ target \notin chain /\ tx.data[2] # <<"reverting">>
        THEN [status |-> "success", chain |-> chain \cup {target}]
        ELSE [status |-> "reverted", chain |-> chain]

\* txHash: null
NoTx == <<"null">>

Idle ==
    [st |-> "idle", salt |-> "", initCode |-> <<>>, expectedAddress |-> <<>>, repeat |-> FALSE,
     sent |-> 0, txHash |-> NoTx, receiptOptions |-> [x \in {} |-> 0], address |-> <<>>,
     alreadyDeployed |-> FALSE, error |-> ""]

\* deployViaCreate2 without the early return of lines 116-122.
AfterDeployedCheckNoReturn(r, deployed) == [r EXCEPT !.st = "checkDeployer"]

\* deployViaCreate2, lines 112-122: the predicted address holds code already.
AfterDeployedCheck(r, deployed) ==
    IF deployed
    THEN [r EXCEPT !.st = "returned", !.address = r.expectedAddress, !.txHash = NoTx,
                   !.alreadyDeployed = TRUE]
    ELSE [r EXCEPT !.st = "checkDeployer"]

\* deployViaCreate2 going on to send without the check of lines 124-130.
AfterDeployerCheckNoThrow(r, available) == [r EXCEPT !.st = "send"]

\* lines 124-130
AfterDeployerCheck(r, available) ==
    IF ~available
    THEN [r EXCEPT !.st = "thrown", !.error = "Deterministic deployer not available"]
    ELSE [r EXCEPT !.st = "send"]

\* deployViaCreate2 returning without the check of lines 144-150.
AfterVerifyNoCheck(r, deployed) ==
    [r EXCEPT !.st = "returned", !.address = r.expectedAddress, !.alreadyDeployed = FALSE]

\* lines 144-157
AfterVerify(r, deployed) ==
    IF ~deployed
    THEN [r EXCEPT !.st = "thrown", !.error = "contract not found at expected address"]
    ELSE [r EXCEPT !.st = "returned", !.address = r.expectedAddress, !.alreadyDeployed = FALSE]

Create2Init ==
    /\ chainCode \in {{}, {DETERMINISTIC_DEPLOYER}}
    /\ txs = <<>>
    /\ run = Idle
    /\ calls = 0
    /\ returned = EmptyFn

\* A caller starts deployViaCreate2({initCode, salt}).
Create2Call ==
    \E salt \in Salts, initCode \in InitCodes :
        /\ run.st \in {"idle", "returned", "thrown"}
        /\ calls < MaxCalls
        /\ calls' = calls + 1
        /\ run' = [Idle EXCEPT !.st = "check", !.salt = salt, !.initCode = initCode,
                               !.expectedAddress = computeCreate2Address(DETERMINISTIC_DEPLOYER, salt, initCode),
                               !.repeat = (<<salt, initCode>> \in DOMAIN returned)]
        /\ UNCHANGED <<chainCode, txs, returned>>
        /\ UNCHANGED <<factoryVars, recordVars, laterVars>>

Create2Return(r) ==
    IF r.st = "returned" /\ <<r.salt, r.initCode>> \notin DOMAIN returned
    THEN Put(returned, <<r.salt, r.initCode>>, r.address)
    ELSE returned

Create2CheckDeployed ==
    /\ run.st = "check"
    /\ run' = AfterDeployedCheck(run, isContractDeployed(chainCode, run.expectedAddress))
    /\ returned' = Create2Return(run')
    /\ UNCHANGED <<chainCode, txs, calls>>
    /\ UNCHANGED <<factoryVars, recordVars, laterVars>>

Create2CheckDeployer ==
    /\ run.st = "checkDeployer"
    /\ run' = AfterDeployerCheck(run, isDeployerAvailable(chainCode))
    /\ UNCHANGED <<chainCode, txs, calls, returned>>
    /\ UNCHANGED <<factoryVars, recordVars, laterVars>>

\* walletClient.sendTransaction: the transaction is sent, or the client throws
\* before sending (for instance when its gas estimation fails).
Create2Send ==
    /\ run.st = "send"
    /\ \/ /\ txs' = Append(txs, [to |-> DETERMINISTIC_DEPLOYER,
                                 data |-> buildDeploymentData(run.salt, run.initCode)])
          /\ run' = [run EXCEPT !.st = "wait", !.txHash = <<"hash", Len(txs) + 1>>,
                                 !.receiptOptions = [k \in {"hash"} |-> <<"hash", Len(txs) + 1>>],
                                 !.sent = @ + 1]
       \/ /\ run' = [run EXCEPT !.st = "thrown", !.error = "sendTransaction failed"]
          /\ UNCHANGED txs
    /\ UNCHANGED <<chainCode, calls, returned>>
    /\ UNCHANGED <<factoryVars, recordVars, laterVars>>

\* publicClient.waitForTransactionReceipt({hash}): the transaction is mined
\* (with either status) and its receipt returned, or the client throws.
Create2Wait ==
    /\ run.st = "wait"
    /\ \/ /\ chainCode' = ExecuteTransaction(chainCode, txs[run.txHash[2]]).chain
          /\ run' = [run EXCEPT !.st = "verify"]
       \/ /\ run' = [run EXCEPT !.st = "thrown", !.error = "WaitForTransactionReceiptTimeout"]
          /\ UNCHANGED chainCode
    /\ UNCHANGED <<txs, calls, returned>>
    /\ UNCHANGED <<factoryVars, recordVars, laterVars>>

Create2Verify ==
    /\ run.st = "verify"
    /\ run' = AfterVerify(run, isContractDeployed(chainCode, run.expectedAddress))
    /\ returned' = Create2Return(run')
    /\ UNCHANGED <<chainCode, txs, calls>>
    /\ UNCHANGED <<factoryVars, recordVars, laterVars>>

\* Someone else sends the same payload to the proxy, or deploys the proxy itself.
OtherDeployment ==
    /\ \/ \E salt \in Salts, initCode \in InitCodes :
            chainCode' = ExecuteTransaction(chainCode, [to |-> DETERMINISTIC_DEPLOYER,
                                                        data |-> buildDeploymentData(salt, initCode)]).chain
       \/ chainCode' = chainCode \cup {DETERMINISTIC_DEPLOYER}
    /\ chainCode' # chainCode
    /\ UNCHANGED <<txs, run, calls, returned>>
    /\ UNCHANGED <<factoryVars, recordVars, laterVars>>

Create2Next ==
    \/ Create2Call
    \/ Create2CheckDeployed
    \/ Create2CheckDeployer
    \/ Create2Send
    \/ Create2Wait
    \/ Create2Verify
    \/ OtherDeployment


(***************************************************************************)
(*                 scripts/utils/deployment-record.js                      *)
(***************************************************************************)

DEPLOYMENT_SCHEMA_VERSION == 1

\* JavaScript values.  A string is a sequence of characters, a bigint a
\* sequence of decimal digits (it has no bound), a number a small integer.
Undefined == <<"undefined">>
Num(n) == <<"number", n>>
Str(chars) == <<"string", chars>>
BigInt(digits) == <<"bigint", digits>>
Null == <<"null">>
Bool(b) == <<"boolean", b>>

\* ToBoolean
Truthy(v) == v # Undefined /\ v # <<"null">> /\ v # Num(0) /\ v # Str(<<>>)

DigitChars == <<"0", "1", "2", "3", "4", "5", "6", "7", "8", "9">>

\* BigInt.prototype.toString: the decimal digits as characters.
BigIntToString(digits) == [i \in 1..Len(digits) |-> DigitChars[digits[i] + 1]]

\* The digits a string of decimal characters denotes.
ParseDigits(chars) ==
    [i \in 1..Len(chars) |-> (CHOOSE d \in 0..9 : DigitChars[d + 1] = chars[i])]

RECURSIVE NumberToString(_)
\* String(n) for a number n >= 0
NumberToString(n) ==
    IF n < 10 THEN <<DigitChars[n + 1]>>
    ELSE NumberToString(n \div 10) \o <<DigitChars[(n % 10) + 1]>>

\* `${v}` in a template literal
TemplateString(v) ==
    IF v[1] = "string" THEN v[2]
    ELSE IF v[1] = "number" THEN NumberToString(v[2])
    ELSE IF v[1] = "bigint" THEN BigIntToString(v[2])
    ELSE <<v[1]>>

\* String.prototype.replaceAll(from, to) for one-character from
replaceAll(chars, from, to) == [i \in 1..Len(chars) |-> IF chars[i] = from THEN to ELSE chars[i]]

\* A deployment record: the values at its property paths (Undefined where
\* the property is missing).
RecordKeys ==
    {"schemaVersion", "createdAt", "network.name", "network.chainId", "factory.address",
     "dao.config.totalSupply"}

Prop(record, key) == IF key \in DOMAIN record THEN record[key] ELSE Undefined

getDeploymentsDir == <<"deployments/">>

getLatestDeploymentPath(networkName) ==
    getDeploymentsDir \o TemplateString(networkName) \o <<".latest.json">>

getTimestampedDeploymentPath(networkName, chainId, isoTimestamp) ==
    LET safeTs == replaceAll(isoTimestamp[2], ":", "-")
    IN  getDeploymentsDir \o TemplateString(networkName) \o <<"-">> \o TemplateString(chainId)
            \o <<"-">> \o safeTs \o <<".json">>

\* A replacer printing the bigint through a double (Number(v).toString()),
\* which keeps its leading 15 digits.
stringifyWithNumber(value) ==
    [key \in {k \in DOMAIN value : value[k] # Undefined} |->
        IF value[key][1] = "bigint"
        THEN <<"json-string", [i \in 1..Len(value[key][2]) |->
                                 IF i <= 15 THEN DigitChars[value[key][2][i] + 1] ELSE "0"]>>
        ELSE IF value[key][1] = "number" THEN <<"json-number", NumberToString(value[key][2])>>
        ELSE <<"json-string", value[key][2]>>]

\* JSON.stringify(value, replacer): the replacer turns a bigint into its
\* decimal string, and a property whose value is undefined is left out.
stringifyWithBigInt(value) ==
    [key \in {k \in DOMAIN value : value[k] # Undefined} |->
        LET v == IF value[key][1] = "bigint" THEN Str(BigIntToString(value[key][2]))
                 ELSE value[key]
        IN  IF v[1] = "number" THEN <<"json-number", NumberToString(v[2])>>
            ELSE IF v[1] \in {"null", "boolean"} THEN <<"json-literal", v>>
            ELSE <<"json-string", v[2]>>]

RECURSIVE ParseNumber(_)
\* The number a JSON number literal denotes.
ParseNumber(chars) ==
    IF Len(chars) = 0 THEN 0
    ELSE 10 * ParseNumber(SubSeq(chars, 1, Len(chars) - 1))
            + (CHOOSE d \in 0..9 : DigitChars[d + 1] = chars[Len(chars)])

\* JSON.parse with no reviver: a number literal becomes a number, a string
\* literal a string.
JSONparse(text) ==
    [key \in DOMAIN text |->
        IF text[key][1] = "json-number" THEN Num(ParseNumber(text[key][2]))
        ELSE IF text[key][1] = "json-literal" THEN text[key][2]
        ELSE Str(text[key][2])]

\* writeDeploymentRecord: the error thrown, or the two paths and the text.
writeDeploymentRecord(record) ==
    IF ~Truthy(Prop(record, "network.name"))
    THEN [ok |-> FALSE, err |-> "Deployment record missing network.name"]
    ELSE IF ~Truthy(Prop(record, "network.chainId"))
    THEN [ok |-> FALSE, err |-> "Deployment record missing network.chainId"]
    ELSE IF Prop(record, "createdAt")[1] # "string"
    THEN [ok |-> FALSE, err |-> "TypeError: isoTimestamp.replaceAll is not a function"]
    ELSE [ok |-> TRUE, err |-> "",
          json |-> stringifyWithBigInt(record),
          latestPath |-> getLatestDeploymentPath(Prop(record, "network.name")),
          timestampedPath |-> getTimestampedDeploymentPath(Prop(record, "network.name"),
                                                           Prop(record, "network.chainId"),
                                                           Prop(record, "createdAt"))]

\* fs.writeFileSync(path, data)
writeFileSync(disk, path, data) == Put(disk, path, data)

\* readDeploymentRecord comparing the schema version loosely (==).
readDeploymentRecordLoose(disk, filePath) ==
    IF filePath \notin DOMAIN disk
    THEN [ok |-> FALSE, err |-> "Deployment record not found", record |-> EmptyFn]
    ELSE LET record == JSONparse(disk[filePath])
         IN  IF TemplateString(Prop(record, "schemaVersion"))
                    # TemplateString(Num(DEPLOYMENT_SCHEMA_VERSION))
             THEN [ok |-> FALSE, err |-> "Unsupported deployment record schemaVersion",
                   record |-> EmptyFn]
             ELSE IF ~Truthy(Prop(record, "factory.address"))
             THEN [ok |-> FALSE, err |-> "Deployment record missing factory.address",
                   record |-> EmptyFn]
             ELSE [ok |-> TRUE, err |-> "", record |-> record]

\* readDeploymentRecord: the record returned, or the error thrown.
readDeploymentRecord(disk, filePath) ==
    IF filePath \notin DOMAIN disk
    THEN [ok |-> FALSE, err |-> "Deployment record not found", record |-> EmptyFn]
    ELSE LET record == JSONparse(disk[filePath])
         IN  IF Prop(record, "schemaVersion") # Num(DEPLOYMENT_SCHEMA_VERSION)
             THEN [ok |-> FALSE, err |-> "Unsupported deployment record schemaVersion",
                   record |-> EmptyFn]
             ELSE IF ~Truthy(Prop(record, "factory.address"))
             THEN [ok |-> FALSE, err |-> "Deployment record missing factory.address",
                   record |-> EmptyFn]
             ELSE [ok |-> TRUE, err |-> "", record |-> record]

\* ---- the records the callers of the model write
Timestamps ==
    {<<"2", "0", "2", "6", "T", "0", "0", ":", "0", "0", ":", "0", "1", "Z">>,
     <<"2", "0", "2", "6", "T", "0", "0", ":", "0", "0", ":", "0", "2", "Z">>}
NetworkNames == {<<"sepolia">>, <<"mainnet">>}
\* 2^53 + 1 and 10^24: neither is a safe JavaScript number.
BigSupplies ==
    {<<9, 0, 0, 7, 1, 9, 9, 2, 5, 4, 7, 4, 0, 9, 9, 3>>,
     <<1, 0, 0, 0, 0, 0, 0, 0, 0, 0, 0, 0, 0, 0, 0, 0, 0, 0, 0, 0, 0, 0, 0, 0, 0>>}

MkRecord(schemaVersion, createdAt, name, chainId, address, totalSupply) ==
    ("schemaVersion" :> schemaVersion) @@ ("createdAt" :> createdAt) @@ ("network.name" :> name)
        @@ ("network.chainId" :> chainId) @@ ("factory.address" :> address)
        @@ ("dao.config.totalSupply" :> totalSupply)

\* Records with at most one property missing or unsupported.
InputRecords ==
    {r \in {MkRecord(sv, ca, nn, ci, fa, ts) :
                sv \in {Num(1), Num(2), Str(<<"1">>)},
                ca \in {Str(t) : t \in Timestamps} \cup {Undefined},
                nn \in {Str(n) : n \in NetworkNames} \cup {Undefined},
                ci \in {Num(11155111), Undefined},
                fa \in {Str(<<"0xFAC7">>), Undefined},
                ts \in {BigInt(b) : b \in BigSupplies}} :
        Cardinality({k \in RecordKeys : r[k] \in {Undefined, Num(2), Str(<<"1">>)}}) <= 1}

ReadPaths ==
    {getLatestDeploymentPath(Str(n)) : n \in NetworkNames}
    \cup {getTimestampedDeploymentPath(Str(n), Num(11155111), Str(t)) :
            n \in NetworkNames, t \in Timestamps}

NoOp ==
    [op |-> "none", record |-> EmptyFn, path |-> <<>>, latestPath |-> <<>>,
     timestampedPath |-> <<>>, ok |-> TRUE, err |-> "", result |-> EmptyFn]

RecordInit ==
    /\ files = EmptyFn
    /\ written = EmptyFn
    /\ recordAt = EmptyFn
    /\ writes = 0
    /\ lastOp = NoOp

\* A script calls writeDeploymentRecord(hre, record).
WriteRecord ==
    \E record \in InputRecords :
        LET w == writeDeploymentRecord(record)
        IN  /\ writes < MaxWrites
            /\ writes' = writes + 1
            /\ IF w.ok
               THEN /\ files' = writeFileSync(writeFileSync(files, w.latestPath, w.json),
                                              w.timestampedPath, w.json)
                    /\ written' = IF w.timestampedPath \in DOMAIN written THEN written
                                  ELSE Put(written, w.timestampedPath, w.json)
                    /\ recordAt' = Put(Put(recordAt, w.latestPath, record),
                                       w.timestampedPath, record)
                    /\ lastOp' = [NoOp EXCEPT !.op = "write", !.record = record,
                                              !.latestPath = w.latestPath,
                                              !.timestampedPath = w.timestampedPath]
               ELSE /\ lastOp' = [NoOp EXCEPT !.op = "write", !.record = record,
                                              !.ok = FALSE, !.err = w.err]
                    /\ UNCHANGED <<files, written, recordAt>>
            /\ UNCHANGED <<factoryVars, create2Vars, laterVars>>

\* A script calls readDeploymentRecord(filePath).
ReadRecord ==
    \E filePath \in ReadPaths :
        LET r == readDeploymentRecord(files, filePath)
        IN  /\ lastOp' = [NoOp EXCEPT !.op = "read", !.path = filePath, !.ok = r.ok,
                                      !.err = r.err, !.result = r.record]
            /\ UNCHANGED <<files, written, recordAt, writes>>
            /\ UNCHANGED <<factoryVars, create2Vars, laterVars>>

RecordNext == WriteRecord \/ ReadRecord


(***************************************************************************)
(*   scripts/utils/etherscan.js, scripts/utils/verification-direct.js,     *)
(*   scripts/verify/dao.js                                                 *)
(***************************************************************************)

\* DEFAULT_RETRY_CONFIG
maxStatusChecks == 10
checkInterval == 5000
\* const maxRetries, initialDelay of verifyWithDirectApi and verifyProxyContract
maxRetries == 3
initialDelay == 10000

LOCAL_NETWORKS == {"hardhat", "localhost", "hardhatMainnet", "hardhatOp"}

isLocalNetwork(networkName) == networkName \in LOCAL_NETWORKS

\* A text is the sequence of its words.  The texts the explorer answers with:
PassVerified == <<"Pass", "-", "Verified">>
PendingInQueue == <<"Pending", "in", "queue">>
FailUnableToVerify == <<"Fail", "-", "Unable", "to", "verify">>
AlreadyVerified == <<"Already", "Verified">>
SourceAlreadyVerified == <<"Contract", "source", "code", "already", "verified">>
NotDetected ==
    <<"A", "corresponding", "implementation", "contract", "was", "unfortunately", "not",
      "detected", "for", "the", "proxy", "address.">>
MissingApiKey == <<"Missing", "or", "invalid", "API", "Key">>
Guid == <<"ezq878u486pzijkvvmerl6a9mzwhv6sefgvqi5tkwceejc7tvn">>
NOTOK == <<"NOTOK">>
OK == <<"OK">>

\* String.prototype.toLowerCase, word by word
LowerWord(word) ==
    CASE word = "Pass" -> "pass"
      [] word = "Verified" -> "verified"
      [] word = "Pending" -> "pending"
      [] word = "Fail" -> "fail"
      [] word = "Unable" -> "unable"
      [] word = "Already" -> "already"
      [] word = "Contract" -> "contract"
      [] word = "A" -> "a"
      [] word = "Missing" -> "missing"
      [] word = "API" -> "api"
      [] word = "Key" -> "key"
      [] word = "NOTOK" -> "notok"
      [] word = "OK" -> "ok"
      [] OTHER -> word

toLowerCase(text) == [i \in 1..Len(text) |-> LowerWord(text[i])]

\* String.prototype.includes, for a part made of whole words
includes(text, part) ==
    \E i \in 0..(Len(text) - Len(part)) : SubSeq(text, i + 1, i + Len(part)) = part

\* What the explorer answers to a request: the JSON body {status, message,
\* result}, or nothing that response.json() can parse ("error": fetch or
\* json() throws).
Response(status, message, result) ==
    [kind |-> "json", status |-> status, message |-> message, result |-> result]
NoResponse == [kind |-> "error", status |-> "", message |-> <<>>, result |-> <<>>]

SubmitResponses ==
    {Response("1", OK, Guid),
     Response("0", NOTOK, SourceAlreadyVerified),
     Response("0", NOTOK, MissingApiKey),
     NoResponse}

StatusResponses ==
    {Response("1", OK, PassVerified),
     Response("0", NOTOK, PendingInQueue),
     Response("0", NOTOK, FailUnableToVerify),
     Response("0", NOTOK, AlreadyVerified),
     NoResponse}

ProxyStatusResponses ==
    {Response("1", OK, <<"The", "proxy's", "implementation", "contract", "is", "found">>),
     Response("0", NOTOK, PendingInQueue),
     Response("0", NOTOK, NotDetected),
     Response("0", NOTOK, FailUnableToVerify),
     NoResponse}

\* What a call returns or throws.
Returned(value) == [thrown |-> FALSE, value |-> value]
Thrown == [thrown |-> TRUE, value |-> <<>>]

\* submitSourceVerification, lines 478-493
submitSourceVerification(response) ==
    IF response.kind = "error" THEN Thrown
    ELSE IF response.status = "1"
    THEN Returned([success |-> TRUE, guid |-> response.result, message |-> <<"Submitted">>])
    ELSE IF includes(toLowerCase(response.result), <<"already", "verified">>)
    THEN Returned([success |-> TRUE, guid |-> <<>>, message |-> <<"Already", "verified!">>])
    ELSE Returned([success |-> FALSE, guid |-> <<>>,
                   message |-> IF response.result # <<>> THEN response.result
                               ELSE IF response.message # <<>> THEN response.message
                               ELSE <<"Unknown", "error">>])

\* submitProxyVerification, lines 531-544
submitProxyVerification(response) ==
    IF response.kind = "error" THEN Thrown
    ELSE IF response.status = "1"
    THEN Returned([success |-> TRUE, guid |-> response.result, message |-> <<"Submitted">>])
    ELSE IF \/ includes(toLowerCase(response.result), <<"already", "verified">>)
            \/ includes(toLowerCase(response.message), <<"already", "verified">>)
    THEN Returned([success |-> TRUE, guid |-> <<>>, message |-> <<"Already", "verified!">>])
    ELSE Returned([success |-> FALSE, guid |-> <<>>,
                   message |-> IF response.message # <<>> THEN response.message
                               ELSE response.result])


\* One iteration of checkVerificationStatus after its delay, lines 324-354:
\* the result to return, or nothing decisive (the loop goes on).
Undecided == [decisive |-> FALSE, success |-> FALSE, message |-> <<>>]
Decided(success, message) == [decisive |-> TRUE, success |-> success, message |-> message]

\* checkVerificationStatus without the return of lines 347-349.
checkVerificationStatusStepNoFail(response) ==
    IF response.kind = "error" THEN Undecided
    ELSE IF response.result = PassVerified
    THEN Decided(TRUE, <<"Verified", "successfully!">>)
    ELSE IF includes(toLowerCase(response.result), <<"already", "verified">>)
    THEN Decided(TRUE, <<"Already", "verified">>)
    ELSE Undecided

checkVerificationStatusStep(response) ==
    IF response.kind = "error" THEN Undecided
    ELSE IF response.result = PassVerified
    THEN Decided(TRUE, <<"Verified", "successfully!">>)
    ELSE IF includes(toLowerCase(response.result), <<"already", "verified">>)
    THEN Decided(TRUE, <<"Already", "verified">>)
    ELSE IF includes(toLowerCase(response.result), <<"fail">>)
    THEN Decided(FALSE, response.result)
    ELSE Undecided

\* One iteration of checkProxyVerificationStatus, lines 385-417.
checkProxyVerificationStatusStep(response) ==
    IF response.kind = "error" THEN Undecided
    ELSE IF response.status = "1" THEN Decided(TRUE, <<>>)
    ELSE IF includes(toLowerCase(response.result), <<"unfortunately", "not", "detected">>)
    THEN Decided(FALSE, <<>>)
    ELSE IF includes(toLowerCase(response.result), <<"fail">>)
    THEN Decided(FALSE, <<>>)
    ELSE Undecided

StillPending ==
    [success |-> FALSE,
     message |-> <<"Verification", "still", "pending", "after", "timeout.", "Check",
                   "Etherscan", "manually.">>]

RECURSIVE Pow2(_)
\* Math.pow(2, n)
Pow2(n) == IF n = 0 THEN 1 ELSE 2 * Pow2(n - 1)

\* A verification call: verifyWithDirectApi ("direct"), verifyProxyContract
\* ("proxy") or checkVerificationStatus alone ("status").
NoVerification ==
    [fn |-> "none", st |-> "idle", networkName |-> "", checks |-> 0, attempt |-> 0, i |-> 0,
     submissions |-> 0, statusRequests |-> 0, slept |-> 0, waits |-> <<>>,
     alreadyAt |-> 0, undetectedAt |-> 0, lastResult |-> <<>>,
     thrown |-> FALSE, success |-> FALSE, message |-> <<>>]

Return(v, success, message) ==
    [v EXCEPT !.st = "returned", !.success = success, !.message = message]

\* A retry loop with one attempt more, and a wait after the last attempt.
BackoffOneMore(v) ==
    IF v.attempt < maxRetries
    THEN [v EXCEPT !.waits = Append(@, initialDelay * Pow2(v.attempt)),
                   !.attempt = @ + 1, !.st = "attempt"]
    ELSE [v EXCEPT !.st = "returned", !.success = FALSE, !.attempt = @ + 1]

\* The end of a failed attempt of verifyWithDirectApi (lines 205-209 and
\* 213-217) and of verifyProxyContract (lines 101-105), and the statement
\* after the loop.
Backoff(v) ==
    IF v.attempt < maxRetries - 1
    THEN [v EXCEPT !.waits = Append(@, initialDelay * Pow2(v.attempt)),
                   !.attempt = @ + 1, !.st = "attempt"]
    ELSE Return([v EXCEPT !.attempt = @ + 1], FALSE,
                IF v.fn = "direct" THEN <<"Failed", "after", "3", "attempts">> ELSE <<>>)

\* verifyWithDirectApi without the return of lines 184-186.
AfterSubmitDirectNoReturn(v, r) ==
    IF r.thrown THEN Backoff(v)
    ELSE IF r.value.success /\ r.value.guid # <<>>
    THEN [v EXCEPT !.st = "poll", !.i = 0]
    ELSE Backoff(v)

\* verifyWithDirectApi lines 183-209, 210-218: after submitSourceVerification.
AfterSubmitDirect(v, r) ==
    IF r.thrown THEN Backoff(v)
    ELSE IF r.value.success /\ r.value.guid = <<>>
    THEN Return(v, r.value.success, r.value.message)
    ELSE IF r.value.success /\ r.value.guid # <<>>
    THEN [v EXCEPT !.st = "poll", !.i = 0]
    ELSE Backoff(v)

\* verifyProxyContract lines 73-105: after submitProxyVerification.
AfterSubmitProxy(v, r) ==
    IF r.thrown THEN Backoff(v)
    ELSE IF r.value.success /\ r.value.guid = <<>>
    THEN Return(v, TRUE, <<>>)
    ELSE IF r.value.success /\ r.value.guid # <<>>
    THEN [v EXCEPT !.st = "poll", !.i = 0]
    ELSE Backoff(v)

\* What the caller of the polling loop does with its result: verifyWithDirectApi
\* (line 193) and a direct caller return it, verifyProxyContract (lines 83-105)
\* returns true or ends the attempt.
AfterPoll(v, success, message) ==
    IF v.fn = "proxy" /\ ~success THEN Backoff(v)
    ELSE Return(v, success, message)

\* The loop of checkVerificationStatus / checkProxyVerificationStatus after the
\* response of iteration i: return, go on, or run out of checks.
AfterStatus(v, d) ==
    IF d.decisive THEN AfterPoll(v, d.success, d.message)
    ELSE IF v.i + 1 < v.checks THEN [v EXCEPT !.i = @ + 1]
    ELSE AfterPoll([v EXCEPT !.i = @ + 1], FALSE,
                   IF v.fn = "proxy" THEN <<>> ELSE StillPending.message)


NetworkInputs == {"sepolia", "hardhat"}
\* config.maxStatusChecks of a caller of checkVerificationStatus
ConfigChecks == {maxStatusChecks, 2}

SaysAlreadyVerified(response) ==
    response.kind = "json" /\ response.status # "1"
        /\ response.result \in {SourceAlreadyVerified, AlreadyVerified}

SaysNotDetected(response) == response.kind = "json" /\ response.result = NotDetected

\* The requests sent so far.
Requests(v) == v.submissions + v.statusRequests

\* The request is counted and its answer remembered: alreadyAt and undetectedAt
\* are the number of the first request that the explorer answered with
\* "already verified" (to a submission) and with "not detected".
Requested(v, field, response) ==
    [v EXCEPT ![field] = @ + 1,
              !.lastResult = IF response.kind = "error" THEN <<"error">> ELSE response.result,
              !.alreadyAt = IF @ = 0 /\ field = "submissions" /\ SaysAlreadyVerified(response)
                            THEN Requests(v) + 1 ELSE @,
              !.undetectedAt = IF @ = 0 /\ SaysNotDetected(response)
                               THEN Requests(v) + 1 ELSE @]

VerifyInit == vf = NoVerification

\* A script calls one of the three functions.
VerifyCall ==
    /\ vf.st \in {"idle", "returned"}
    /\ \E fn \in {"direct", "proxy", "status"}, networkName \in NetworkInputs,
          checks \in ConfigChecks :
          /\ fn = "status" => networkName = "sepolia"
          /\ fn # "status" => checks = maxStatusChecks
          /\ vf' = LET v == [NoVerification EXCEPT !.fn = fn, !.networkName = networkName,
                                                     !.checks = checks]
                   IN  IF fn = "status" THEN [v EXCEPT !.st = "poll"]
                       ELSE IF isLocalNetwork(networkName)
                       THEN Return(v, TRUE, IF fn = "direct"
                                            THEN <<"Skipped", "on", "local", "network">>
                                            ELSE <<>>)
                       ELSE IF fn = "proxy" THEN [v EXCEPT !.st = "config"]
                       ELSE [v EXCEPT !.st = "attempt"]
    /\ UNCHANGED exceptVerify

\* verifyProxyContract lines 48-54: getEtherscanConfig returns, or throws
\* (no API key) and the function returns false.
VerifyConfig ==
    /\ vf.fn = "proxy" /\ vf.st = "config"
    /\ \/ vf' = [vf EXCEPT !.st = "attempt"]
       \/ vf' = Return(vf, FALSE, <<>>)
    /\ UNCHANGED exceptVerify

\* verifyWithDirectApi lines 155-167: getEtherscanConfig and getBuildInfo
\* return, or one of them throws and the attempt ends in the catch.
VerifyPrepare ==
    /\ vf.fn = "direct" /\ vf.st = "attempt"
    /\ \/ vf' = [vf EXCEPT !.st = "submit"]
       \/ vf' = Backoff(vf)
    /\ UNCHANGED exceptVerify

\* The submission request and what the function does with the answer.
VerifySubmit ==
    /\ \/ vf.fn = "direct" /\ vf.st = "submit"
       \/ vf.fn = "proxy" /\ vf.st = "attempt"
    /\ \E response \in SubmitResponses :
          vf' = IF vf.fn = "direct"
                THEN AfterSubmitDirect(
                         Requested(vf, "submissions", response),
                         submitSourceVerification(response))
                ELSE AfterSubmitProxy(
                         Requested(vf, "submissions", response),
                         submitProxyVerification(response))
    /\ UNCHANGED exceptVerify

\* One iteration of the polling loop: the delay, the status request and what
\* the loop (and its caller) does with the answer.
VerifyPoll ==
    /\ vf.st = "poll"
    /\ vf.i < vf.checks
    /\ \/ /\ vf.fn = "proxy"
          /\ \E response \in ProxyStatusResponses :
                vf' = AfterStatus(
                          Requested([vf EXCEPT !.slept = @ + 1], "statusRequests", response),
                          checkProxyVerificationStatusStep(response))
       \/ /\ vf.fn # "proxy"
          /\ \E response \in StatusResponses :
                vf' = AfterStatus(
                          Requested([vf EXCEPT !.slept = @ + 1], "statusRequests", response),
                          checkVerificationStatusStep(response))
    /\ UNCHANGED exceptVerify

VerifyNext == VerifyCall \/ VerifyConfig \/ VerifyPrepare \/ VerifySubmit \/ VerifyPoll


(***************************************************************************)
(*          One DAO after createDAO: DAOToken and DAOGovernor              *)
(***************************************************************************)

EmptyWorld ==
    [code |-> {}, tokens |-> EmptyFn, timelocks |-> EmptyFn, governors |-> EmptyFn,
     deployedDAOs |-> <<>>, creatorDAOs |-> EmptyFn]

DaoParams ==
    [daoName |-> "x", tokenName |-> "x", tokenSymbol |-> "x", totalSupply |-> 250,
     votingDelay |-> 0, votingPeriod |-> 1, timelockDelay |-> 1]

\* The DAO that createDAO(DaoParams), sent by alice to a fresh factory, creates.
NewDAO == createDAO(EmptyWorld, EOA("alice"), 0, DaoParams)

\* The accounts that call the DAO's contracts: the creator, another account
\* and the timelock (executing a proposal).
DaoAccounts == {EOA("alice"), EOA("bob"), NewDAO.timelock}
Amounts == {0, 1}

NoDaoOp ==
    [op |-> "none", sender |-> ZeroAddress, to |-> ZeroAddress, value |-> 0, ok |-> TRUE,
     err |-> "", first |-> FALSE, before |-> ZeroAddress]

DaoInit ==
    dao = [token |-> NewDAO.w.tokens[NewDAO.token],
           governor |-> NewDAO.w.governors[NewDAO.governor],
           timelock |-> NewDAO.timelock, creator |-> EOA("alice"),
           ops |-> 0, managerSet |-> <<>>, lastOp |-> NoDaoOp]

\* token.transfer(to, value) sent by sender.  first: to had never received
\* tokens before; before: the delegate of to before the call.
DaoTransfer ==
    /\ dao.ops < MaxOps
    /\ \E sender \in DaoAccounts, to \in DaoAccounts, value \in Amounts :
          \E r \in {TokenTransfer(dao.token, sender, to, value)} :
              dao' = [dao EXCEPT !.token = r.t, !.ops = @ + 1,
                                 !.lastOp = [NoDaoOp EXCEPT !.op = "transfer", !.sender = sender,
                                                !.to = to, !.value = value, !.ok = r.ok,
                                                !.err = r.err,
                                                !.first = to \notin dao.token.hasReceivedTokens,
                                                !.before = delegates(dao.token, to)]]
    /\ UNCHANGED exceptDao

\* token.delegate(to) sent by sender.
DaoDelegate ==
    /\ dao.ops < MaxOps
    /\ \E sender \in DaoAccounts, to \in DaoAccounts :
          \E r \in {TokenDelegate(dao.token, sender, to)} :
              dao' = [dao EXCEPT !.token = r.t, !.ops = @ + 1,
                                 !.lastOp = [NoDaoOp EXCEPT !.op = "delegate", !.sender = sender,
                                                !.to = to, !.ok = r.ok,
                                                !.before = delegates(dao.token, sender)]]
    /\ UNCHANGED exceptDao

\* governor.setManager(to) sent by sender.  before: the manager before the call.
DaoSetManager ==
    /\ dao.ops < MaxOps
    /\ \E sender \in DaoAccounts, to \in {EOA("alice"), EOA("bob")} :
          \E r \in {setManager(dao.governor, sender, to)} :
              dao' = [dao EXCEPT !.governor = r.g, !.ops = @ + 1,
                                 !.managerSet = IF sender = dao.timelock THEN <<to>> ELSE @,
                                 !.lastOp = [NoDaoOp EXCEPT !.op = "setManager", !.sender = sender,
                                                !.to = to, !.ok = r.ok, !.err = r.err,
                                                !.before = dao.governor.manager]]
    /\ UNCHANGED exceptDao

DaoNext == DaoTransfer \/ DaoDelegate \/ DaoSetManager


(***************************************************************************)
(*                    create2.js: address prediction                       *)
(***************************************************************************)

DEFAULT_FACTORY_SALT == "s1"

Deployers == {DETERMINISTIC_DEPLOYER, <<"0x0000000000000000000000000000000000000001">>}

\* getDeploymentInfo(initCode, salt)
getDeploymentInfo(initCode, salt) ==
    [deployer |-> DETERMINISTIC_DEPLOYER,
     salt |-> salt,
     initCodeHash |-> keccak256(initCode),
     predictedAddress |-> computeCreate2Address(DETERMINISTIC_DEPLOYER, salt, initCode)]

NoPrediction == [called |-> FALSE, deployer |-> <<>>, salt |-> "", initCode |-> <<>>, address |-> <<>>]

Prediction(deployer, salt, initCode, address) ==
    [called |-> TRUE, deployer |-> deployer, salt |-> salt, initCode |-> initCode,
     address |-> address]

PredictInit == pred = [prev |-> NoPrediction, last |-> NoPrediction]

\* A call of computeCreate2Address.
PredictCall ==
    /\ \E deployer \in Deployers, salt \in Salts, initCode \in InitCodes :
          pred' = [prev |-> pred.last,
                   last |-> Prediction(deployer, salt, initCode,
                                       computeCreate2Address(deployer, salt, initCode))]
    /\ UNCHANGED exceptPred

\* A call of getDeploymentInfo, with the salt given or left to its default.
PredictInfo ==
    /\ \E salt \in Salts \cup {DEFAULT_FACTORY_SALT}, initCode \in InitCodes :
          \E info \in {getDeploymentInfo(initCode, salt)} :
              pred' = [prev |-> pred.last,
                       last |-> Prediction(info.deployer, info.salt, initCode,
                                           info.predictedAddress)]
    /\ UNCHANGED exceptPred

PredictNext == PredictCall \/ PredictInfo


(***************************************************************************)
(*                The createDAO driver script (deploy/dao)                 *)
(***************************************************************************)

timeoutMs == 60000
pollMs == 2000

\* An address as a JavaScript string: its hex digits in checksum case or in
\* lower case.
Hex(a, case) == Str(<<a, case>>)
AddressOf(s) == s[2][1]
hexToLowerCase(s) == Str(<<AddressOf(s), "lower">>)

\* The factory's storage before the driver's transaction: MaxPrior or fewer
\* DAOs created by another account.
PriorDAO == createDAO(EmptyWorld, EOA("bob"), 0, DaoParams)
RECURSIVE WorldBefore(_)
WorldBefore(prior) ==
    IF prior = 0 THEN EmptyWorld
    ELSE IF prior = 1 THEN PriorDAO.w
    ELSE createDAO(WorldBefore(prior - 1), EOA("bob"), prior - 1, DaoParams).w

\* The driver's transaction, confirmed.
Confirmed(prior) == createDAO(WorldBefore(prior), EOA("alice"), 0, DaoParams)

\* The factory's storage after the driver's transaction and the createDAO
\* calls of another account that followed it.
RECURSIVE ChainAfter(_, _)
ChainAfter(prior, later) ==
    IF later = 0 THEN Confirmed(prior).w
    ELSE createDAO(ChainAfter(prior, later - 1), EOA("carol"), later, DaoParams).w

NoAddresses == [token |-> Undefined, timelock |-> Undefined, governor |-> Undefined]

Addresses(info) ==
    [token |-> Hex(info.token, "checksum"), timelock |-> Hex(info.timelock, "checksum"),
     governor |-> Hex(info.governor, "checksum")]

\* A log of the receipt: its emitter, and what decodeEventLog makes of it under
\* the factory's ABI ("undecodable": decodeEventLog throws).
Log(address, eventName, args) == [address |-> address, eventName |-> eventName, args |-> args]

LogKinds(prior) ==
    {Log(Hex(FactoryAddress, "checksum"), "DAOCreated", Addresses(Confirmed(prior))),
     Log(Hex(FactoryAddress, "lower"), "DAOCreated", Addresses(Confirmed(prior))),
     Log(Hex(FactoryAddress, "lower"), "undecodable", NoAddresses),
     Log(Hex(Confirmed(prior).token, "lower"), "undecodable", NoAddresses),
     Log(Hex(EOA("bob"), "lower"), "DAOCreated", Addresses(PriorDAO)),
     Log(Undefined, "DAOCreated", Addresses(PriorDAO))}

Receipts(prior) ==
    {<<>>} \cup UNION {[1..n -> LogKinds(prior)] : n \in 1..MaxLogs}

\* The log scan taking DAOCreated from any emitter.
RECURSIVE ScanLogsAnyEmitter(_, _)
ScanLogsAnyEmitter(logs, factoryAddress) ==
    IF logs = <<>> THEN NoAddresses
    ELSE IF Head(logs).eventName = "DAOCreated" THEN Head(logs).args
    ELSE ScanLogsAnyEmitter(Tail(logs), factoryAddress)

\* The loop over receipt.logs: the arguments of the first DAOCreated event
\* that the factory emitted, or the three variables left undefined.
RECURSIVE ScanLogs(_, _)
ScanLogs(logs, factoryAddress) ==
    IF logs = <<>> THEN NoAddresses
    ELSE IF \/ ~Truthy(Head(logs).address)
            \/ hexToLowerCase(Head(logs).address) # hexToLowerCase(factoryAddress)
         THEN ScanLogs(Tail(logs), factoryAddress)
    ELSE IF Head(logs).eventName = "DAOCreated" THEN Head(logs).args
    ELSE ScanLogs(Tail(logs), factoryAddress)

\* if (!token || !timelock || !governor)
NeedsFallback(a) == ~Truthy(a.token) \/ ~Truthy(a.timelock) \/ ~Truthy(a.governor)

\* What publicClient.getBytecode returns.
Bytecodes == {Undefined, Str(<<"0x">>), Str(<<"0x", "363d3d37">>)}

\* One round of waitForCode's loop, elapsed milliseconds after it started.
\* The round that takes "0x" for code.
waitForCodeStepLoose(elapsed, bytecode) ==
    IF Truthy(bytecode) THEN "return"
    ELSE IF elapsed > timeoutMs THEN "throw"
    ELSE "sleep"

\* The round that gives up one poll interval late.
waitForCodeStepLate(elapsed, bytecode) ==
    IF Truthy(bytecode) /\ bytecode # Str(<<"0x">>) THEN "return"
    ELSE IF elapsed > timeoutMs + pollMs THEN "throw"
    ELSE "sleep"

\* One round of waitForCode's loop, elapsed milliseconds after it started.
waitForCodeStep(elapsed, bytecode) ==
    IF Truthy(bytecode) /\ bytecode # Str(<<"0x">>) THEN "return"
    ELSE IF elapsed > timeoutMs THEN "throw"
    ELSE "sleep"

\* What createDAO does once it holds the three addresses: the waits and the
\* contract reads of createDAO, verifyTokenDistribution and
\* verifyQuorumSettings, in order.
Program ==
    <<[kind |-> "wait", contracts |-> {"token"}],
      [kind |-> "wait", contracts |-> {"governor"}],
      [kind |-> "wait", contracts |-> {"token"}],
      [kind |-> "read", contracts |-> {"token"}],
      [kind |-> "wait", contracts |-> {"governor"}],
      [kind |-> "wait", contracts |-> {"token"}],
      [kind |-> "read", contracts |-> {"governor", "token"}]>>

NoDriver ==
    [pc |-> "idle", prior |-> 0, later |-> 0, hasEvent |-> FALSE, eventArgs |-> NoAddresses,
     addresses |-> NoAddresses, countReads |-> 0, daoCount |-> 0, daoReads |-> 0,
     step |-> 1, elapsed |-> 0, polls |-> 0, seen |-> {}, reads |-> {}, err |-> ""]

DriverInit == drv = NoDriver

\* The logs that the scan is to take the addresses from.
FactoryEvents(logs) ==
    {i \in DOMAIN logs :
        /\ logs[i].address \in {Hex(FactoryAddress, "checksum"), Hex(FactoryAddress, "lower")}
        /\ logs[i].eventName = "DAOCreated"}

FirstOf(S) == CHOOSE i \in S : \A j \in S : i <= j

\* After the scan of the receipt's logs.
AfterReceipt(d, logs, found) ==
    [d EXCEPT !.pc = IF NeedsFallback(found) THEN "count" ELSE "run",
              !.addresses = found,
              !.hasEvent = FactoryEvents(logs) # {},
              !.eventArgs = IF FactoryEvents(logs) = {} THEN NoAddresses
                            ELSE logs[FirstOf(FactoryEvents(logs))].args]

\* write.createDAO, waitForTransactionReceipt and the scan of receipt.logs.
DriverSend ==
    /\ drv.pc = "idle"
    /\ \E prior \in 0..MaxPrior :
          \E logs \in Receipts(prior) :
              drv' = AfterReceipt([drv EXCEPT !.prior = prior], logs,
                                  ScanLogs(logs, Hex(FactoryAddress, "checksum")))
    /\ UNCHANGED exceptDriver

\* read.getDAOCount, answered by a node that may lag behind.
DriverCount ==
    /\ drv.pc = "count"
    /\ \E daoCount \in 0..(drv.prior + 1 + drv.later) :
          drv' = [drv EXCEPT !.countReads = @ + 1, !.daoCount = daoCount,
                             !.pc = IF daoCount = 0 THEN "thrown" ELSE "getDAO",
                             !.err = IF daoCount = 0 THEN "DAO count is 0" ELSE ""]
    /\ UNCHANGED exceptDriver

\* read.getDAO([daoCount - 1n])
DriverGetDAO ==
    /\ drv.pc = "getDAO"
    /\ drv' = [drv EXCEPT !.daoReads = @ + 1, !.pc = "run",
                          !.addresses =
                              Addresses(ChainAfter(drv.prior, drv.later).deployedDAOs[(drv.daoCount - 1) + 1])]
    /\ UNCHANGED exceptDriver

\* Another account's createDAO on the same factory, mined after the driver's
\* transaction and before the driver has read the factory.
DriverOtherCreate ==
    /\ drv.pc \in {"count", "getDAO"}
    /\ drv.later < MaxLater
    /\ drv' = [drv EXCEPT !.later = @ + 1]
    /\ UNCHANGED exceptDriver

\* Non-empty bytecode.
HasCode(bytecode) == bytecode \notin {Undefined, Str(<<"0x">>)}

\* After one round of waitForCode for the contracts of the current step.
AfterPollRound(d, bytecode, outcome) ==
    IF outcome = "return"
    THEN [d EXCEPT !.step = @ + 1, !.elapsed = 0, !.polls = 0,
                   !.seen = IF HasCode(bytecode) THEN @ \cup Program[d.step].contracts ELSE @]
    ELSE IF outcome = "throw"
    THEN [d EXCEPT !.pc = "thrown", !.err = "Timed out waiting for bytecode",
                   !.polls = @ + 1]
    ELSE [d EXCEPT !.elapsed = @ + pollMs, !.polls = @ + 1]

\* One round of waitForCode: getBytecode, then return, throw or sleep(pollMs).
DriverPoll ==
    /\ drv.pc = "run"
    /\ Program[drv.step].kind = "wait"
    /\ \E bytecode \in Bytecodes :
          drv' = AfterPollRound(drv, bytecode, waitForCodeStep(drv.elapsed, bytecode))
    /\ UNCHANGED exceptDriver

\* The contract reads of verifyTokenDistribution or verifyQuorumSettings,
\* each under withRetries: they return, or the error is thrown on.
DriverRead ==
    /\ drv.pc = "run"
    /\ Program[drv.step].kind = "read"
    /\ \E outcome \in {"returned", "thrown"} :
          drv' = [drv EXCEPT !.reads = @ \cup Program[drv.step].contracts,
                             !.pc = IF outcome = "thrown" THEN "thrown"
                                    ELSE IF drv.step = Len(Program) THEN "returned" ELSE "run",
                             !.err = IF outcome = "thrown" THEN "read failed" ELSE "",
                             !.step = IF outcome = "thrown" \/ drv.step = Len(Program)
                                      THEN @ ELSE @ + 1]
    /\ UNCHANGED exceptDriver

DriverNext ==
    DriverSend \/ DriverCount \/ DriverGetDAO \/ DriverOtherCreate \/ DriverPoll \/ DriverRead


(***************************************************************************)
(*             factoryDeterministic.js: deployFactoryDeterministic         *)
(***************************************************************************)

\* The salts of the implementation contracts, one for each contract type.
TOKEN_IMPL_SALT == "TOKEN_IMPL_SALT"
GOVERNOR_IMPL_SALT == "GOVERNOR_IMPL_SALT"
TIMELOCK_IMPL_SALT == "TIMELOCK_IMPL_SALT"

\* The deployViaCreate2 calls of step 1, in order: salt and artifact.
ImplementationCalls ==
    <<[salt |-> TOKEN_IMPL_SALT, artifact |-> "DAOToken"],
      [salt |-> GOVERNOR_IMPL_SALT, artifact |-> "DAOGovernor"],
      [salt |-> TIMELOCK_IMPL_SALT, artifact |-> "DAOTimelock"]>>

\* artifacts.readArtifact(name).bytecode
Bytecode(artifact) == <<artifact>>

\* encodeAbiParameters("address, address, address", [...]).slice(2)
ConstructorArgs(tokenImpl, governorImpl, timelockImpl) == <<tokenImpl, governorImpl, timelockImpl>>

\* options.salt: absent, or a custom salt.
SaltOptions == {"", "s2"}

\* The state of a deployViaCreate2 call at its first await.
StartDeployViaCreate2(salt, initCode) ==
    [Idle EXCEPT !.st = "check", !.salt = salt, !.initCode = initCode,
                 !.expectedAddress = computeCreate2Address(DETERMINISTIC_DEPLOYER, salt, initCode),
                 !.repeat = (<<salt, initCode>> \in DOMAIN returned)]

NoDeploy ==
    [pc |-> "idle", salt |-> "", impls |-> <<>>, initCode |-> <<>>, predicted |-> <<>>,
     factoryCalls |-> 0, txsAtCall |-> 0, sent |-> 0, factory |-> <<>>,
     alreadyDeployed |-> FALSE, txHash |-> NoTx, error |-> "", runs |-> 0,
     existed |-> FALSE, deployed |-> EmptyFn]

DeployInit == fd = NoDeploy

\* What deployFactoryDeterministic returns.
DeployReturn(d, factory, alreadyDeployed, txHash, sent) ==
    [d EXCEPT !.pc = "returned", !.factory = factory, !.alreadyDeployed = alreadyDeployed,
              !.txHash = txHash, !.sent = sent,
              !.deployed = IF alreadyDeployed \/ d.salt \in DOMAIN d.deployed THEN @
                           ELSE Put(@, d.salt, [factory |-> factory, impls |-> d.impls])]

\* deployFactoryDeterministic(options), up to the await of isDeployerAvailable.
DeployCall ==
    /\ fd.pc \in {"idle", "returned", "thrown"}
    /\ run.st \in {"idle", "returned", "thrown"}
    /\ fd.runs < MaxRuns
    /\ \E option \in SaltOptions :
          fd' = [NoDeploy EXCEPT !.pc = "checkDeployer",
                                 !.salt = IF option # "" THEN option ELSE DEFAULT_FACTORY_SALT,
                                 !.txsAtCall = Len(txs), !.runs = fd.runs + 1,
                                 !.deployed = fd.deployed]
    /\ UNCHANGED <<create2Vars, exceptDeploy>>

\* Lines 80-105: the prerequisite check, and on success the start of the
\* first implementation's deployViaCreate2.
DeployCheckDeployer ==
    /\ fd.pc = "checkDeployer"
    /\ IF isDeployerAvailable(chainCode)
       THEN /\ fd' = [fd EXCEPT !.pc = "implementations"]
            /\ run' = StartDeployViaCreate2(ImplementationCalls[1].salt,
                                            Bytecode(ImplementationCalls[1].artifact))
       ELSE /\ fd' = [fd EXCEPT !.pc = "thrown", !.sent = Len(txs) - fd.txsAtCall,
                                !.error = "Deterministic deployer not available on this chain"]
            /\ UNCHANGED run
    /\ UNCHANGED <<chainCode, txs, calls, returned, exceptDeploy>>

\* After the third implementation: lines 129-150, up to the await of
\* isContractDeployed(predictedAddress).
DeployPredict(d, initCode) ==
    [d EXCEPT !.pc = "checkFactory", !.initCode = initCode,
              !.predicted = getDeploymentInfo(initCode, d.salt).predictedAddress]

\* A deployViaCreate2 of step 1 has ended: its error is thrown on, or its
\* address is kept and the next call starts, or the factory is predicted.
DeployImplementationDone ==
    /\ fd.pc = "implementations"
    /\ run.st \in {"returned", "thrown"}
    /\ IF run.st = "thrown"
       THEN /\ fd' = [fd EXCEPT !.pc = "thrown", !.error = run.error,
                                !.sent = Len(txs) - fd.txsAtCall]
            /\ UNCHANGED run
       ELSE IF Len(fd.impls) + 1 < Len(ImplementationCalls)
       THEN /\ fd' = [fd EXCEPT !.impls = Append(@, run.address)]
            /\ run' = StartDeployViaCreate2(ImplementationCalls[Len(fd.impls) + 2].salt,
                                            Bytecode(ImplementationCalls[Len(fd.impls) + 2].artifact))
       ELSE /\ fd' = DeployPredict([fd EXCEPT !.impls = Append(@, run.address)],
                                   Bytecode("DAOFactory")
                                       \o ConstructorArgs(fd.impls[1], fd.impls[2], run.address))
            /\ UNCHANGED run
    /\ UNCHANGED <<chainCode, txs, calls, returned, exceptDeploy>>

\* deployFactoryDeterministic without the early return of lines 151-171.
AfterFactoryCheckNoReturn(d, alreadyDeployed, sent) ==
    [d EXCEPT !.pc = "factory", !.factoryCalls = @ + 1]

\* Lines 150-182: the factory exists already and the call returns, or the
\* factory's deployViaCreate2 is to start.
AfterFactoryCheck(d, alreadyDeployed, sent) ==
    IF alreadyDeployed
    THEN DeployReturn(d, d.predicted, TRUE, NoTx, sent)
    ELSE [d EXCEPT !.pc = "factory", !.factoryCalls = @ + 1]

DeployCheckFactory ==
    /\ fd.pc = "checkFactory"
    /\ fd' = AfterFactoryCheck([fd EXCEPT !.existed = isContractDeployed(chainCode, fd.predicted)],
                               isContractDeployed(chainCode, fd.predicted),
                               Len(txs) - fd.txsAtCall)
    /\ run' = IF fd'.pc = "factory" THEN StartDeployViaCreate2(fd.salt, fd.initCode) ELSE run
    /\ UNCHANGED <<chainCode, txs, calls, returned, exceptDeploy>>

\* Lines 184-223: the factory's deployViaCreate2 has ended.
DeployFactoryDone ==
    /\ fd.pc = "factory"
    /\ run.st \in {"returned", "thrown"}
    /\ fd' = IF run.st = "thrown"
             THEN [fd EXCEPT !.pc = "thrown", !.error = run.error,
                             !.sent = Len(txs) - fd.txsAtCall]
             ELSE DeployReturn(fd, run.address, FALSE, run.txHash, Len(txs) - fd.txsAtCall)
    /\ UNCHANGED <<create2Vars, exceptDeploy>>

\* A deployViaCreate2 call from elsewhere, before the first
\* deployFactoryDeterministic.
DeployOtherCall ==
    /\ fd.pc = "idle"
    /\ Create2Call

DeployNext ==
    \/ DeployCall
    \/ DeployCheckDeployer
    \/ DeployImplementationDone
    \/ DeployCheckFactory
    \/ DeployFactoryDone
    \/ DeployOtherCall
    \/ Create2CheckDeployed
    \/ Create2CheckDeployer
    \/ Create2Send
    \/ Create2Wait
    \/ Create2Verify


(***************************************************************************)
(*                     withRetries (deploy/dao)                            *)
(***************************************************************************)

retries == 8
initialDelayMs == 750
maxDelayMs == 10000

\* The options of a call: the defaults, or the caller's.
RetryOptions ==
    {[retries |-> retries, initialDelayMs |-> initialDelayMs],
     [retries |-> 0, initialDelayMs |-> initialDelayMs],
     [retries |-> 2, initialDelayMs |-> 6000]}

\* What fn() throws: the error's cause.name, shortMessage and message (texts
\* as sequences of words; Undefined where the property is absent).  noData
\* tells whether the error reports that the contract returned no data.
Error(noData, causeName, shortMessage, message) ==
    [noData |-> noData, causeName |-> causeName, shortMessage |-> shortMessage,
     message |-> message]

Errors ==
    {Error(TRUE, Str(<<"ContractFunctionZeroDataError">>), Undefined, Str(<<"reverted">>)),
     Error(TRUE, Undefined, Str(<<"The", "contract", "returned", "no", "data", "(0x)">>), Undefined),
     Error(TRUE, Undefined, Undefined, Str(<<"balanceOf", "returned", "no", "data">>)),
     Error(FALSE, Str(<<"HttpRequestError">>), Str(<<"HTTP", "request", "failed">>),
           Str(<<"fetch", "failed">>)),
     Error(FALSE, Undefined, Undefined, Undefined)}

Results == {BigInt(<<"0">>), BigInt(<<"2">>)}

\* error?.shortMessage?.includes('returned no data')
TextIncludes(text, part) == text # Undefined /\ includes(text[2], part)

\* lines 72-75
returnedNoData(error) ==
    \/ error.causeName = Str(<<"ContractFunctionZeroDataError">>)
    \/ TextIncludes(error.shortMessage, <<"returned", "no", "data">>)
    \/ TextIncludes(error.message, <<"returned", "no", "data">>)

\* Math.min(a, b)
MathMin(a, b) == IF a < b THEN a ELSE b

NoRetry ==
    [st |-> "idle", retries |-> 0, initialDelayMs |-> 0, attempt |-> 0, calls |-> 0,
     waits |-> <<>>, noData |-> 0, other |-> 0, last |-> <<>>, result |-> <<>>,
     error |-> <<>>]

RetryInit == rt = NoRetry

\* The catch block giving up one attempt early.
withRetriesCatchEarly(r, error) ==
    IF ~returnedNoData(error) \/ r.attempt + 1 >= r.retries
    THEN [r EXCEPT !.attempt = @ + 1, !.st = "thrown", !.error = error]
    ELSE [r EXCEPT !.attempt = @ + 1, !.st = "sleeping",
                   !.waits = Append(@, MathMin(r.initialDelayMs * Pow2((r.attempt + 1) - 1),
                                               maxDelayMs))]

\* The catch block, lines 71-86, up to the await of sleep(delay).
withRetriesCatch(r, error) ==
    IF ~returnedNoData(error) \/ r.attempt + 1 > r.retries
    THEN [r EXCEPT !.attempt = @ + 1, !.st = "thrown", !.error = error]
    ELSE [r EXCEPT !.attempt = @ + 1, !.st = "sleeping",
                   !.waits = Append(@, MathMin(r.initialDelayMs * Pow2((r.attempt + 1) - 1),
                                               maxDelayMs))]

\* withRetries(fn, opts), up to the first await of fn().
RetryCall ==
    /\ rt.st \in {"idle", "returned", "thrown"}
    /\ \E opts \in RetryOptions :
          rt' = [NoRetry EXCEPT !.st = "calling", !.retries = opts.retries,
                                !.initialDelayMs = opts.initialDelayMs]
    /\ UNCHANGED exceptRetry

\* fn() returns.
RetryReturns ==
    /\ rt.st = "calling"
    /\ \E value \in Results :
          rt' = [rt EXCEPT !.st = "returned", !.calls = @ + 1, !.result = value,
                           !.last = value]
    /\ UNCHANGED exceptRetry

\* fn() throws.
RetryThrows ==
    /\ rt.st = "calling"
    /\ \E error \in Errors :
          rt' = withRetriesCatch([rt EXCEPT !.calls = @ + 1, !.last = error,
                                            !.noData = IF error.noData THEN @ + 1 ELSE @,
                                            !.other = IF error.noData THEN @ ELSE @ + 1],
                                 error)
    /\ UNCHANGED exceptRetry

\* sleep(delay) is over.
RetrySleeps ==
    /\ rt.st = "sleeping"
    /\ rt' = [rt EXCEPT !.st = "calling"]
    /\ UNCHANGED exceptRetry

RetryNext == RetryCall \/ RetryReturns \/ RetryThrows \/ RetrySleeps


(***************************************************************************)
(*        scripts/flow/deploy-and-create.js, scripts/flow/verify-all.js    *)
(***************************************************************************)

MaxFlows == 2

\* process.env: FACTORY_SALT and DEPLOYMENT_TAG unset, or both set.
Envs ==
    {[FACTORY_SALT |-> Undefined, DEPLOYMENT_TAG |-> Undefined],
     [FACTORY_SALT |-> Str(<<"smoke">>), DEPLOYMENT_TAG |-> Str(<<"sepolia-smoke">>)]}

\* The network the scripts are run on (--network).
FlowNetwork == Str(<<"sepolia">>)

\* a || b
Or(a, b) == IF Truthy(a) THEN a ELSE b

\* getCustomSalt()
getCustomSalt(envSalt) ==
    IF Truthy(envSalt) THEN Str(<<"keccak256">> \o envSalt[2]) ELSE Undefined

\* What deployFactoryDeterministic({salt}) returns on the network it is
\* connected to: the factory found at the predicted address, or deployed.
FactoryResult(networkName, salt, alreadyDeployed) ==
    [factory |-> Str(<<"0xFAC7">>),
     tokenImplementation |-> Str(<<"0x70CE">>),
     governorImplementation |-> Str(<<"0x60FE">>),
     timelockImplementation |-> Str(<<"0x71E0">>),
     networkName |-> networkName,
     alreadyDeployed |-> Bool(alreadyDeployed),
     salt |-> Or(salt, Str(<<"keccak256", DEFAULT_FACTORY_SALT>>)),
     txHash |-> IF alreadyDeployed THEN Null ELSE Str(<<"0x7A">>),
     deploymentInfo |-> [deployer |-> Str(DETERMINISTIC_DEPLOYER),
                         salt |-> Or(salt, Str(<<"keccak256", DEFAULT_FACTORY_SALT>>)),
                         initCodeHash |-> Str(<<"0x1C">>),
                         predictedAddress |-> Str(<<"0xFAC7">>)]]

\* What createDAO returns.
DaoResults ==
    {[token |-> Str(<<"0x70">>), timelock |-> Str(<<"0x71">>), governor |-> Str(<<"0x60">>),
      creator |-> Str(<<"0xA1">>),
      config |-> [daoName |-> Str(<<"x">>), totalSupply |-> BigInt(b)]] :
        b \in {x \in BigSupplies : Len(x) = 25}}

\* The record object of lines 72-102, as the values at its property paths.
FlowRecord(createdAt, tag, factoryResult, addresses, daoResult, chainId) ==
    ("schemaVersion" :> Num(DEPLOYMENT_SCHEMA_VERSION))
    @@ ("createdAt" :> createdAt)
    @@ ("tag" :> Or(tag, Null))
    @@ ("network.name" :> factoryResult.networkName)
    @@ ("network.chainId" :> chainId)
    @@ ("create2.deployer" :> Or(factoryResult.deploymentInfo.deployer, Null))
    @@ ("create2.salt" :> Or(Or(factoryResult.deploymentInfo.salt, factoryResult.salt), Null))
    @@ ("create2.initCodeHash" :> Or(factoryResult.deploymentInfo.initCodeHash, Null))
    @@ ("create2.predictedAddress" :> Or(factoryResult.deploymentInfo.predictedAddress, Null))
    @@ ("factory.address" :> Prop(addresses, "factory"))
    @@ ("factory.alreadyDeployed" :> Bool(factoryResult.alreadyDeployed = Bool(TRUE)))
    @@ ("factory.txHash" :> Or(factoryResult.txHash, Null))
    @@ ("implementations.token" :> Prop(addresses, "tokenImplementation"))
    @@ ("implementations.governor" :> Prop(addresses, "governorImplementation"))
    @@ ("dao.tokenProxy" :> Prop(addresses, "token"))
    @@ ("dao.governorProxy" :> Prop(addresses, "governor"))
    @@ ("dao.timelock" :> Prop(addresses, "timelock"))
    @@ ("dao.creator" :> daoResult.creator)
    @@ ("dao.config.daoName" :> daoResult.config.daoName)
    @@ ("dao.config.totalSupply" :> daoResult.config.totalSupply)

\* The properties verify-all's main reads from the record.
VerifyAllReads ==
    {"factory.address", "implementations.token", "implementations.governor",
     "implementations.timelock", "dao.tokenProxy", "dao.timelock", "dao.governorProxy",
     "dao.config"}

\* record.dao.config: the object, or undefined when the record has no
\* property under dao.config.
ConfigOf(record) ==
    IF {"dao.config.daoName", "dao.config.totalSupply"} \cap DOMAIN record = {} THEN Undefined
    ELSE <<"object", [k \in {"dao.config.daoName", "dao.config.totalSupply"} \cap DOMAIN record
                        |-> record[k]]>>

\* The arguments verify-all's main passes on, lines 41-59 of verify-all.js.
VerifyAllArguments(record) ==
    [k \in VerifyAllReads |-> IF k = "dao.config" THEN ConfigOf(record) ELSE Prop(record, k)]

NoFlow ==
    [pc |-> "idle", runs |-> 0, createdAt |-> Undefined, customSalt |-> Undefined,
     tag |-> Undefined, factoryResult |-> <<>>, daoResult |-> <<>>, addresses |-> EmptyFn,
     chainId |-> Undefined, record |-> EmptyFn, threwAt |-> "", exitCode |-> -1,
     filesAtStart |-> EmptyFn, writesAtStart |-> 0, latestPath |-> <<>>,
     verified |-> FALSE, arguments |-> EmptyFn]

FlowInit == flow = NoFlow

\* main of deploy-and-create.js, up to the await of deployFactoryDeterministic.
FlowStart ==
    /\ flow.pc \in {"idle", "exited"}
    /\ flow.runs < MaxFlows
    /\ \E t \in Timestamps, env \in Envs :
          flow' = [NoFlow EXCEPT !.pc = "deploy", !.runs = flow.runs + 1,
                                 !.createdAt = Str(t),
                                 !.customSalt = getCustomSalt(env.FACTORY_SALT),
                                 !.tag = env.DEPLOYMENT_TAG, !.filesAtStart = files,
                                 !.writesAtStart = writes]
    /\ UNCHANGED <<recordVars, exceptFlow>>

\* A step of main has thrown: the catch block is next.
FlowCatch(f, step) == [f EXCEPT !.pc = "catch", !.threwAt = step]

\* deployFactoryDeterministic has returned or thrown, lines 49-53.
AfterDeployFactory(f, outcome) ==
    IF outcome.thrown THEN FlowCatch(f, "deployFactoryDeterministic")
    ELSE [f EXCEPT !.pc = "create", !.factoryResult = outcome.value,
                   !.addresses = ("factory" :> outcome.value.factory)
                                 @@ ("tokenImplementation" :> outcome.value.tokenImplementation)
                                 @@ ("governorImplementation"
                                        :> outcome.value.governorImplementation)]

FlowDeployFactory ==
    /\ flow.pc = "deploy"
    /\ \E outcome \in {Thrown} \cup {Returned(FactoryResult(FlowNetwork, flow.customSalt, b)) :
                                        b \in BOOLEAN} :
          flow' = AfterDeployFactory(flow, outcome)
    /\ UNCHANGED <<recordVars, exceptFlow>>

\* main going on to write the record whether createDAO returned or threw.
AfterCreateDAOUncaught(f, outcome) ==
    IF outcome.thrown THEN [f EXCEPT !.pc = "chainId", !.threwAt = "createDAO",
                                     !.daoResult = [creator |-> Undefined,
                                                    config |-> [daoName |-> Undefined,
                                                                totalSupply |-> Undefined]]]
    ELSE [f EXCEPT !.pc = "chainId", !.daoResult = outcome.value,
                   !.addresses = ("token" :> outcome.value.token)
                                 @@ ("timelock" :> outcome.value.timelock)
                                 @@ ("governor" :> outcome.value.governor) @@ @]

\* createDAO has returned or thrown, lines 58-67.
AfterCreateDAO(f, outcome) ==
    IF outcome.thrown THEN FlowCatch(f, "createDAO")
    ELSE [f EXCEPT !.pc = "chainId", !.daoResult = outcome.value,
                   !.addresses = ("token" :> outcome.value.token)
                                 @@ ("timelock" :> outcome.value.timelock)
                                 @@ ("governor" :> outcome.value.governor) @@ @]

FlowCreateDAO ==
    /\ flow.pc = "create"
    /\ \E outcome \in {Thrown} \cup {Returned(d) : d \in DaoResults} :
          flow' = AfterCreateDAO(flow, outcome)
    /\ UNCHANGED <<recordVars, exceptFlow>>

\* publicClient.getChainId() has returned or thrown, line 78.
FlowGetChainId ==
    /\ flow.pc = "chainId"
    /\ \/ flow' = FlowCatch(flow, "getChainId")
       \/ flow' = [flow EXCEPT !.pc = "write", !.chainId = Num(11155111)]
    /\ UNCHANGED <<recordVars, exceptFlow>>

\* The record is built and written, lines 72-104.
FlowWrite ==
    /\ flow.pc = "write"
    /\ LET record == FlowRecord(flow.createdAt, flow.tag, flow.factoryResult, flow.addresses,
                                flow.daoResult, flow.chainId)
           w == writeDeploymentRecord(record)
       IN  /\ writes' = writes + 1
           /\ IF w.ok
              THEN /\ files' = writeFileSync(writeFileSync(files, w.latestPath, w.json),
                                             w.timestampedPath, w.json)
                   /\ written' = IF w.timestampedPath \in DOMAIN written THEN written
                                 ELSE Put(written, w.timestampedPath, w.json)
                   /\ recordAt' = Put(Put(recordAt, w.latestPath, record),
                                      w.timestampedPath, record)
                   /\ lastOp' = [NoOp EXCEPT !.op = "write", !.record = record,
                                             !.latestPath = w.latestPath,
                                             !.timestampedPath = w.timestampedPath]
                   /\ flow' = [flow EXCEPT !.pc = "summary", !.record = record,
                                           !.latestPath = w.latestPath]
              ELSE /\ lastOp' = [NoOp EXCEPT !.op = "write", !.record = record,
                                             !.ok = FALSE, !.err = w.err]
                   /\ flow' = FlowCatch([flow EXCEPT !.record = record],
                                        "writeDeploymentRecord")
                   /\ UNCHANGED <<files, written, recordAt>>
    /\ UNCHANGED exceptFlow

\* process.exit(1) of the catch block, or process.exit(0) after main.
FlowExit ==
    /\ flow.pc \in {"summary", "catch"}
    /\ flow' = [flow EXCEPT !.pc = "exited",
                            !.exitCode = IF flow.pc = "catch" THEN 1 ELSE 0]
    /\ UNCHANGED <<recordVars, exceptFlow>>

\* main of verify-all.js on the network of the flow, no DEPLOYMENT_FILE set:
\* the latest record is read and its fields are passed on.
FlowVerifyAll ==
    /\ flow.pc = "exited"
    /\ flow.exitCode = 0
    /\ ~flow.verified
    /\ LET r == readDeploymentRecord(files, flow.latestPath)
       IN  /\ lastOp' = [NoOp EXCEPT !.op = "read", !.path = flow.latestPath, !.ok = r.ok,
                                     !.err = r.err, !.result = r.record]
           /\ flow' = [flow EXCEPT !.verified = TRUE,
                                   !.arguments = IF r.ok THEN VerifyAllArguments(r.record)
                                                 ELSE EmptyFn]
    /\ UNCHANGED <<files, written, recordAt, writes>>
    /\ UNCHANGED exceptFlow

FlowNext ==
    \/ FlowStart
    \/ FlowDeployFactory
    \/ FlowCreateDAO
    \/ FlowGetChainId
    \/ FlowWrite
    \/ FlowExit
    \/ FlowVerifyAll


(***************************************************************************)
(*                          Specifications                                 *)
(***************************************************************************)

Init == FactoryInit /\ Create2Init /\ RecordInit /\ VerifyInit /\ DaoInit /\ PredictInit /\ DriverInit /\ DeployInit /\ RetryInit /\ FlowInit

\* The factory contract and the transactions sent to it.
SpecFactory == Init /\ [][FactoryNext]_vars

\* Calls of deployViaCreate2 against a chain others deploy to as well.
SpecCreate2 == Init /\ [][Create2Next]_vars

\* The deployment-record files and the scripts writing and reading them.
SpecRecord == Init /\ [][RecordNext]_vars

\* The verification scripts and an explorer answering their requests.
SpecVerify == Init /\ [][VerifyNext]_vars

\* Calls to the token and the governor of one DAO.
SpecDAO == Init /\ [][DaoNext]_vars

\* Address predictions.
SpecPredict == Init /\ [][PredictNext]_vars

\* One run of the createDAO driver.
SpecDriver == Init /\ [][DriverNext]_vars

\* deployFactoryDeterministic and the deployViaCreate2 calls it makes.
SpecDeploy == Init /\ [][DeployNext]_vars

\* Calls of withRetries.
SpecRetry == Init /\ [][RetryNext]_vars

\* Runs of deploy-and-create.js, each followed by verify-all.js.
SpecFlow == Init /\ [][FlowNext]_vars

\* The waiting operations, one of them run at a time: a deployViaCreate2 call,
\* a verification call, or the createDAO driver.
OnlyCreate2 == vf = NoVerification /\ drv = NoDriver
OnlyVerify == calls = 0 /\ drv = NoDriver
OnlyDriver == calls = 0 /\ vf = NoVerification

WaitsNext ==
    \/ OnlyCreate2 /\ Create2Call
    \/ OnlyCreate2 /\ Create2CheckDeployed
    \/ OnlyCreate2 /\ Create2CheckDeployer
    \/ OnlyCreate2 /\ Create2Send
    \/ OnlyCreate2 /\ Create2Wait
    \/ OnlyCreate2 /\ Create2Verify
    \/ OnlyVerify /\ VerifyCall
    \/ OnlyVerify /\ VerifyConfig
    \/ OnlyVerify /\ VerifyPrepare
    \/ OnlyVerify /\ VerifySubmit
    \/ OnlyVerify /\ VerifyPoll
    \/ OnlyDriver /\ DriverSend
    \/ OnlyDriver /\ DriverCount
    \/ OnlyDriver /\ DriverGetDAO
    \/ OnlyDriver /\ DriverOtherCreate
    \/ OnlyDriver /\ DriverPoll
    \/ OnlyDriver /\ DriverRead

SpecWaits == Init /\ [][WaitsNext]_vars


(***************************************************************************)
(*                              Properties                                 *)
(***************************************************************************)

\* ------------------------------------------------------------------- C1
\* C1: once a deployViaCreate2 call has returned for a salt and init code, a
\* later call with the same salt and init code sends no transaction, never
\* throws, and returns the same address with alreadyDeployed = true and
\* txHash = null.
C1_SecondCallIsIdempotent ==
    run.repeat =>
        /\ run.st \in {"check", "returned"}
        /\ run.sent = 0
        /\ run.st = "returned" =>
              /\ run.address = returned[<<run.salt, run.initCode>>]
              /\ run.alreadyDeployed = TRUE
              /\ run.txHash = NoTx

\* A second call with the salt and init code of a call that returned before
\* has returned too, on a chain this script has sent a transaction to.
C1_Witness ==
    /\ run.repeat
    /\ run.st = "returned"
    /\ run.address = returned[<<run.salt, run.initCode>>]
    /\ Len(txs) > 0

\* ------------------------------------------------------------------- C2
\* C2: after a successful createDAO the creator holds
\* floor(totalSupply * 1 / 100) tokens, the timelock holds the rest, the two
\* add up to totalSupply and the factory holds none; and no createDAO call
\* reverts in the distribution, whatever the supply (totalSupply = 1 included).
C2_Distribution ==
    lastCall.op = "createDAO" =>
        IF lastCall.ok
        THEN LET t == tokens[lastCall.token]
                 totalSupply == lastCall.params.totalSupply
                 creatorBalance == balanceOf(t, lastCall.caller)
                 treasuryBalance == balanceOf(t, lastCall.timelock)
             IN  /\ totalSupply >= 1
                 /\ creatorBalance = (totalSupply * 1) \div 100
                 /\ treasuryBalance = totalSupply - creatorBalance
                 /\ creatorBalance + treasuryBalance = totalSupply
                 /\ balanceOf(t, FactoryAddress) = 0
                 /\ t.totalSupply = totalSupply
        ELSE lastCall.err \notin {"ERC20InsufficientBalance", "ERC20InvalidReceiver"}

\* A createDAO with totalSupply = 1 has succeeded: the creator's share is 0.
C2_Witness ==
    /\ lastCall.op = "createDAO"
    /\ lastCall.ok
    /\ lastCall.params.totalSupply = 1
    /\ balanceOf(tokens[lastCall.token], lastCall.timelock) = 1

\* ------------------------------------------------------------------- C3
ErrorOf(field) ==
    CASE field = "totalSupply" -> "InvalidTotalSupply"
      [] field = "daoName" -> "EmptyDAOName"
      [] field = "tokenName" -> "EmptyTokenName"
      [] field = "tokenSymbol" -> "EmptyTokenSymbol"
      [] field = "votingPeriod" -> "InvalidVotingPeriod"
      [] field = "timelockDelay" -> "InvalidTimelockDelay"

C3_RevertsWithItsError ==
    (lastCall.op = "createDAO" /\ InvalidFields(lastCall.params) # {}) =>
        /\ ~lastCall.ok
        /\ lastCall.err \in {ErrorOf(f) : f \in InvalidFields(lastCall.params)}
        /\ lastCall.token = ZeroAddress

C3_RevertChangesNothing ==
    (lastCall'.op = "createDAO" /\ ~lastCall'.ok) =>
        /\ UNCHANGED <<code, tokens, timelocks, governors, deployedDAOs, creatorDAOs>>
        /\ getDAOCount' = getDAOCount

\* C3: a createDAO whose totalSupply is 0, whose daoName, tokenName or
\* tokenSymbol is empty, or whose votingPeriod or timelockDelay is 0 reverts
\* with the error of (one of) its invalid parameters, and a createDAO that
\* reverts deploys no contract and leaves the count and the stored records
\* as they were.
C3_InputValidation == []C3_RevertsWithItsError /\ [][C3_RevertChangesNothing]_vars

\* A createDAO has reverted for its timelock delay alone, on a factory that
\* holds a DAO already.
C3_Witness ==
    /\ lastCall.op = "createDAO"
    /\ InvalidFields(lastCall.params) = {"timelockDelay"}
    /\ lastCall.err = "InvalidTimelockDelay"
    /\ Len(deployedDAOs) = 1

\* ------------------------------------------------------------------- C4
\* C4: after a successful createDAO the governor holds PROPOSER_ROLE and
\* CANCELLER_ROLE on the new timelock, address(0) holds EXECUTOR_ROLE and the
\* factory does not hold DEFAULT_ADMIN_ROLE, which it held inside the call;
\* and in no state between calls does the factory hold the admin role of any
\* timelock.
C4_TimelockRoles ==
    /\ (lastCall.op = "createDAO" /\ lastCall.ok) =>
          LET tl == timelocks[lastCall.timelock]
          IN  /\ hasRole(tl, PROPOSER_ROLE, lastCall.governor)
              /\ hasRole(tl, CANCELLER_ROLE, lastCall.governor)
              /\ hasRole(tl, EXECUTOR_ROLE, ZeroAddress)
              /\ ~hasRole(tl, DEFAULT_ADMIN_ROLE, FactoryAddress)
              /\ lastCall.adminInSetup
    /\ \A a \in DOMAIN timelocks : ~hasRole(timelocks[a], DEFAULT_ADMIN_ROLE, FactoryAddress)

\* A second DAO has been created; the timelock of the first is still there.
C4_Witness ==
    /\ lastCall.op = "createDAO"
    /\ lastCall.ok
    /\ Cardinality(DOMAIN timelocks) = 2

\* ------------------------------------------------------------------- C5
RecordsOf(creator) ==
    LET IsBy(info) == info.creator = creator
    IN  SelectSeq(created, IsBy)

C5_Registry ==
    /\ getDAOCount = Len(created)
    /\ \A index \in 0..(getDAOCount - 1) :
          /\ getDAO(index).ok
          /\ getDAO(index).info = created[index + 1]
    /\ lastCall.op = "getDAO" =>
          IF lastCall.index < getDAOCount
          THEN lastCall.ok /\ lastCall.info = created[lastCall.index + 1]
          ELSE ~lastCall.ok /\ lastCall.err = "IndexOutOfBounds"
    /\ \A c \in Creators : getDAOsByCreator(c) = RecordsOf(c)

C5_RegistryStep ==
    /\ getDAOCount' = IF lastCall'.op = "createDAO" /\ lastCall'.ok /\ created' # created
                      THEN getDAOCount + 1
                      ELSE getDAOCount
    /\ \A i \in 1..Len(deployedDAOs) : deployedDAOs'[i] = deployedDAOs[i]

\* C5: getDAOCount is 0 on a fresh factory and grows by exactly 1 per
\* successful createDAO; getDAO(index) returns the record of the
\* (index+1)-th created DAO for index < getDAOCount and reverts with
\* IndexOutOfBounds otherwise; a stored record never changes; and
\* getDAOsByCreator(c) is the records created by c, in creation order.
C5_RegistryConsistent ==
    /\ getDAOCount = 0
    /\ []C5_Registry
    /\ [][C5_RegistryStep]_vars

\* Two creators hold a DAO each and getDAO(1) has returned the second.
C5_Witness ==
    /\ getDAOCount = 2
    /\ deployedDAOs[1].creator # deployedDAOs[2].creator
    /\ lastCall.op = "getDAO"
    /\ lastCall.index = 1
    /\ lastCall.ok

\* ------------------------------------------------------------------- C6
\* C6: every createDAO call with valid parameters succeeds, whatever the time
\* since the caller's previous call, and adds one entry to the caller's list.
C6_EveryValidCallSucceeds ==
    (lastCall.op = "createDAO" /\ InvalidFields(lastCall.params) = {}) =>
        /\ lastCall.ok
        /\ Len(getDAOsByCreator(lastCall.caller)) = Len(RecordsOf(lastCall.caller))

\* ------------------------------------------------------------------- C7
CloneAddresses ==
    UNION {{deployedDAOs[i].token, deployedDAOs[i].governor, deployedDAOs[i].timelock} :
              i \in 1..Len(deployedDAOs)}

\* C7: the token, governor and timelock addresses of the recorded DAOs are
\* all different from one another, each holds the clone created for it, and
\* none is the address of an implementation contract.
C7_DistinctAddresses ==
    /\ Cardinality(CloneAddresses) = 3 * Len(deployedDAOs)
    /\ CloneAddresses \cap Implementations = {}
    /\ CloneAddresses = code
    /\ \A i \in 1..Len(deployedDAOs) :
          /\ deployedDAOs[i].token \in DOMAIN tokens
          /\ deployedDAOs[i].governor \in DOMAIN governors
          /\ deployedDAOs[i].timelock \in DOMAIN timelocks

\* One creator holds two DAOs (created at different block timestamps).
C7_Witness ==
    /\ Len(deployedDAOs) = 2
    /\ deployedDAOs[1].creator = deployedDAOs[2].creator

\* ------------------------------------------------------------------- C8
\* C8: readDeploymentRecord returns a record exactly when the file exists,
\* its schemaVersion is the number 1 and its factory.address is present;
\* otherwise it throws an error with a message and returns nothing.
C8_ReadValidates ==
    lastOp.op = "read" =>
        LET valid ==
                /\ lastOp.path \in DOMAIN files
                /\ "schemaVersion" \in DOMAIN files[lastOp.path]
                /\ files[lastOp.path]["schemaVersion"] = <<"json-number", <<"1">>>>
                /\ "factory.address" \in DOMAIN files[lastOp.path]
        IN  IF valid
            THEN lastOp.ok /\ lastOp.result # EmptyFn
            ELSE ~lastOp.ok /\ lastOp.err # "" /\ lastOp.result = EmptyFn

\* A file of schema version 2 has been read, and refused.
C8_Witness ==
    /\ lastOp.op = "read"
    /\ lastOp.path \in DOMAIN files
    /\ files[lastOp.path]["schemaVersion"] = <<"json-number", <<"2">>>>
    /\ ~lastOp.ok

\* ------------------------------------------------------------------- C9
\* The read was of a file holding a record of schema version 1.
ReadOfWritten ==
    /\ lastOp.op = "read"
    /\ lastOp.path \in DOMAIN recordAt
    /\ recordAt[lastOp.path]["schemaVersion"] = Num(1)

\* C9 as claimed: reading either file of a written record of schema version 1
\* returns a record equal to the written one in every field.
C9_RoundTripEqual ==
    ReadOfWritten => lastOp.ok /\ lastOp.result = recordAt[lastOp.path]

\* C9, amended: reading either file of a written record of schema version 1
\* that has a factory.address returns a record whose string and number fields
\* equal the written ones and whose bigint fields hold the decimal string of
\* the written integer (all its digits), not the integer; without a
\* factory.address the read throws.
C9_RoundTripDecimal ==
    ReadOfWritten =>
        LET record == recordAt[lastOp.path]
        IN  IF record["factory.address"] = Undefined
            THEN ~lastOp.ok
            ELSE /\ lastOp.ok
                 /\ \A key \in RecordKeys :
                       IF record[key][1] = "bigint"
                       THEN /\ Prop(lastOp.result, key)[1] = "string"
                            /\ ParseDigits(Prop(lastOp.result, key)[2]) = record[key][2]
                       ELSE Prop(lastOp.result, key) = record[key]

\* A history file has been read back, with a total supply of 2^53 + 1.
C9_Witness ==
    /\ ReadOfWritten
    /\ lastOp.ok
    /\ lastOp.path \in DOMAIN written
    /\ recordAt[lastOp.path]["dao.config.totalSupply"]
          = BigInt(<<9, 0, 0, 7, 1, 9, 9, 2, 5, 4, 7, 4, 0, 9, 9, 3>>)

\* ------------------------------------------------------------------ C10
\* C10: a history file, once written, keeps the content first written to it,
\* and the latest file of a network holds the record last written for it.
C10_HistoryImmutable ==
    /\ \A path \in DOMAIN written : path \in DOMAIN files /\ files[path] = written[path]
    /\ (lastOp.op = "write" /\ lastOp.ok) =>
          /\ files[lastOp.latestPath] = stringifyWithBigInt(lastOp.record)
          /\ lastOp.timestampedPath \in DOMAIN files

\* ------------------------------------------------------------------ C11
\* C11: when the explorer answers a submission of verifyWithDirectApi or
\* verifyProxyContract with "already verified", the function has returned
\* success and that submission is the last request it sent; a
\* verifyWithDirectApi that got this answer made no status request at all.
C11_AlreadyVerifiedReturns ==
    (vf.fn \in {"direct", "proxy"} /\ vf.alreadyAt > 0) =>
        /\ vf.st = "returned"
        /\ vf.success
        /\ ~vf.thrown
        /\ Requests(vf) = vf.alreadyAt
        /\ vf.fn = "direct" => vf.statusRequests = 0

\* A second submission was answered with "already verified".
C11_Witness ==
    /\ vf.fn = "direct"
    /\ vf.alreadyAt = 2
    /\ vf.submissions = 2
    /\ vf.st = "returned"

\* ------------------------------------------------------------------ C12
\* Every other holder whose delegate is account a.
OtherDelegators(t, a) == {h \in DOMAIN t.balances : h # a /\ delegates(t, h) = a}

C13_ManagerOnlyByExecutor ==
    /\ dao.governor.manager = IF dao.managerSet = <<>> THEN dao.creator ELSE dao.managerSet[1]
    /\ dao.lastOp.op = "setManager" =>
          IF dao.lastOp.sender = _executor(dao.governor)
          THEN dao.lastOp.ok /\ dao.governor.manager = dao.lastOp.to
          ELSE /\ ~dao.lastOp.ok
               /\ dao.lastOp.err = "OnlyGovernance"
               /\ dao.governor.manager = dao.lastOp.before

\* The current manager, who is no longer the creator, has called setManager
\* and the call has reverted.
C13_Witness ==
    /\ dao.lastOp.op = "setManager"
    /\ dao.lastOp.sender = dao.governor.manager
    /\ dao.lastOp.sender # dao.creator
    /\ dao.lastOp.to = dao.creator
    /\ ~dao.lastOp.ok

\* ------------------------------------------------------------------ C14
\* C14: right after a successful createDAO with totalSupply >= 1 the quorum
\* fraction is 1%, and the creator's voting power is at least the governor's
\* proposalThreshold and at least the quorum of the token's supply.
C14_CreatorMeetsThresholdAndQuorum ==
    (lastCall.op = "createDAO" /\ lastCall.ok /\ lastCall.params.totalSupply >= 1) =>
        LET t == tokens[lastCall.token]
            g == governors[lastCall.governor]
        IN  /\ g.quorumNumerator = 1
            /\ getVotes(t, lastCall.caller) >= g.proposalThreshold
            /\ getVotes(t, lastCall.caller) >= quorum(g, t.totalSupply)

\* A createDAO with a supply of 250 has succeeded: the creator has 2 votes,
\* the threshold and the quorum are 2.
C14_Witness ==
    /\ lastCall.op = "createDAO"
    /\ lastCall.ok
    /\ lastCall.params.totalSupply = 250
    /\ getVotes(tokens[lastCall.token], lastCall.caller) = 2
    /\ governors[lastCall.governor].proposalThreshold = 2
    /\ quorum(governors[lastCall.governor], 250) = 2

\* ------------------------------------------------------------------ C15
SameInputs(p, q) == p.deployer = q.deployer /\ p.salt = q.salt /\ p.initCode = q.initCode

DecisiveResults == {PassVerified, AlreadyVerified, FailUnableToVerify}

\* C16: checkVerificationStatus sends at most maxStatusChecks status requests
\* (10 unless the caller's config says otherwise), each after one delay of
\* checkInterval; it returns at the first "Pass - Verified" (success) or
\* failure answer (success = false, the answer as message), goes on after any
\* other answer or error, and after the last check returns success = false
\* with the "still pending" message; it never throws.
C16_BoundedPolling ==
    vf.fn = "status" =>
        /\ vf.statusRequests <= vf.checks
        /\ vf.slept = vf.statusRequests
        /\ vf.submissions = 0
        /\ ~vf.thrown
        /\ vf.st \in {"poll", "returned"}
        /\ vf.st = "poll" =>
              /\ vf.i < vf.checks
              /\ vf.statusRequests = vf.i
              /\ vf.lastResult \notin DecisiveResults
        /\ vf.st = "returned" =>
              IF vf.lastResult = PassVerified THEN vf.success
              ELSE IF vf.lastResult = AlreadyVerified THEN vf.success
              ELSE IF vf.lastResult = FailUnableToVerify
              THEN ~vf.success /\ vf.message = FailUnableToVerify
              ELSE /\ ~vf.success
                   /\ vf.message = StillPending.message
                   /\ vf.statusRequests = vf.checks

\* The default ten checks were all made and the result is "still pending".
C16_Witness ==
    /\ vf.fn = "status"
    /\ vf.st = "returned"
    /\ vf.checks = 10
    /\ vf.statusRequests = 10
    /\ vf.message = StillPending.message

\* ------------------------------------------------------------------ C17
\* C17: verifyWithDirectApi sends at most 3 submissions, has waited
\* 10 s * 2^k after failed attempt k (k = 0, 1; nothing after the third),
\* never throws, and after three failed attempts returns success = false.
C17_BoundedRetries ==
    vf.fn = "direct" =>
        /\ vf.submissions <= 3
        /\ vf.attempt <= 3
        /\ ~vf.thrown
        /\ vf.st \in {"attempt", "submit", "poll", "returned"}
        /\ vf.waits = SubSeq(<<10000, 20000>>, 1, IF vf.attempt < 2 THEN vf.attempt ELSE 2)
        /\ vf.attempt = 3 => vf.st = "returned" /\ ~vf.success

\* Three submissions were rejected or lost, and the function has returned.
C17_Witness ==
    /\ vf.fn = "direct"
    /\ vf.st = "returned"
    /\ vf.submissions = 3
    /\ vf.attempt = 3
    /\ vf.waits = <<10000, 20000>>

\* ------------------------------------------------------------------ C18
\* C18: once the explorer has answered "unfortunately not detected",
\* verifyProxyContract sends no further submission or status request and
\* returns false.
C18_NotDetectedIsTerminal ==
    (vf.fn = "proxy" /\ vf.undetectedAt > 0) =>
        /\ Requests(vf) = vf.undetectedAt
        /\ vf.st = "returned" => ~vf.success

\* ------------------------------------------------------------------ C19
\* C19: when the receipt holds a DAOCreated event of the factory, the driver
\* holds that event's addresses and has read neither getDAOCount nor getDAO;
\* when it holds none, the driver has read getDAOCount once, and then a count
\* of 0 has made it throw with no addresses, and any other count has made it
\* take the addresses of getDAO(count - 1).
C19_AddressesFromEventElseFallback ==
    drv.pc # "idle" =>
        IF drv.hasEvent
        THEN /\ drv.addresses = drv.eventArgs
             /\ drv.addresses = Addresses(Confirmed(drv.prior))
             /\ drv.countReads = 0
             /\ drv.daoReads = 0
        ELSE IF drv.pc = "count"
        THEN drv.countReads = 0 /\ drv.daoReads = 0 /\ drv.addresses = NoAddresses
        ELSE /\ drv.countReads = 1
             /\ IF drv.daoCount = 0
                THEN /\ drv.pc = "thrown"
                     /\ drv.err = "DAO count is 0"
                     /\ drv.addresses = NoAddresses
                     /\ drv.daoReads = 0
                     /\ drv.reads = {}
                ELSE \/ drv.pc = "getDAO" /\ drv.daoReads = 0 /\ drv.addresses = NoAddresses
                     \/ /\ drv.daoReads = 1
                        /\ drv.addresses =
                              Addresses(ChainAfter(drv.prior, drv.later).deployedDAOs[drv.daoCount])

\* The receipt held no DAOCreated event of the factory and, with a DAO
\* created earlier, the count still read 0: the driver has thrown.
C19_Witness ==
    /\ drv.pc = "thrown"
    /\ ~drv.hasEvent
    /\ drv.countReads = 1
    /\ drv.daoCount = 0
    /\ drv.prior = 1
    /\ drv.addresses = NoAddresses

\* ------------------------------------------------------------------ C20
\* C20 as stated: whenever the driver has read a new contract's state, it has
\* seen non-empty bytecode at the token, the timelock and the governor.
C20_CodeSeenAtAllThree ==
    drv.reads # {} => {"token", "timelock", "governor"} \subseteq drv.seen

\* C20, amended: the driver reads the state of the token and of the governor
\* only, and whenever it has read a contract's state it has seen non-empty
\* bytecode at that contract's address (the timelock's address is never
\* polled); a wait lasts at most timeoutMs plus one poll interval, and the
\* driver throws out of a wait only when more than timeoutMs (60 s) have
\* passed without bytecode.
C20_CodeSeenBeforeRead ==
    /\ drv.reads \subseteq drv.seen
    /\ drv.reads \subseteq {"token", "governor"}
    /\ drv.seen \subseteq {"token", "governor"}
    /\ drv.pc = "returned" => drv.seen = {"token", "governor"}
    /\ drv.elapsed <= timeoutMs + pollMs
    /\ drv.polls * pollMs <= timeoutMs + 2 * pollMs
    /\ drv.err = "Timed out waiting for bytecode" =>
          drv.pc = "thrown" /\ drv.elapsed > timeoutMs

\* The driver has seen bytecode at the token and at the governor, has read
\* the token's state, and has waited timeoutMs for the governor's bytecode
\* once more.
C20_Witness ==
    /\ drv.reads = {"token"}
    /\ drv.seen = {"token", "governor"}
    /\ drv.pc = "run"
    /\ drv.step = 5
    /\ drv.elapsed = timeoutMs

\* ------------------------------------------------------------------ C21
\* The wait before the k-th retry.
RetryDelay(r, k) ==
    IF r.initialDelayMs * Pow2(k - 1) <= maxDelayMs THEN r.initialDelayMs * Pow2(k - 1)
    ELSE maxDelayMs

\* C21: withRetries calls fn at most retries + 1 times; every call before the
\* last threw a no-data error and was followed by the wait of its retry; a
\* returned call returns the first result; a thrown call throws the last
\* error, which is either another error, or a no-data error thrown by call
\* number retries + 1.
C21_BoundedRetriesOfNoData ==
    /\ rt.calls <= rt.retries + 1
    /\ rt.waits = [k \in 1..Len(rt.waits) |-> RetryDelay(rt, k)]
    /\ rt.st = "calling" => rt.calls = rt.noData /\ rt.other = 0 /\ Len(rt.waits) = rt.calls
    /\ rt.st = "sleeping" => rt.calls = rt.noData /\ rt.other = 0 /\ Len(rt.waits) = rt.calls
    /\ rt.st = "returned" =>
          /\ rt.result = rt.last
          /\ rt.other = 0
          /\ rt.calls = rt.noData + 1
          /\ Len(rt.waits) = rt.noData
    /\ rt.st = "thrown" =>
          /\ rt.error = rt.last
          /\ Len(rt.waits) = rt.calls - 1
          /\ IF rt.error.noData
             THEN rt.other = 0 /\ rt.calls = rt.retries + 1
             ELSE rt.other = 1 /\ rt.noData = rt.calls - 1

\* With the default options fn has thrown no-data errors nine times, the
\* waits have reached the 10 s cap, and the ninth error was thrown on.
C21_Witness ==
    /\ rt.st = "thrown"
    /\ rt.retries = retries
    /\ rt.calls = 9
    /\ rt.error.noData
    /\ rt.waits = <<750, 1500, 3000, 6000, 10000, 10000, 10000, 10000>>

\* ------------------------------------------------------------------ C22
\* C22: whenever deployViaCreate2 has returned, the returned address is the
\* predicted one and holds code, and a result with alreadyDeployed = false
\* follows a transaction of its own; it throws "contract not found" only
\* after sending its transaction.
C22_ReturnedAddressHasCode ==
    /\ run.st = "returned" =>
          /\ run.address = run.expectedAddress
          /\ isContractDeployed(chainCode, run.address)
          /\ ~run.alreadyDeployed => run.sent = 1 /\ run.txHash # NoTx
    /\ run.error = "contract not found at expected address" =>
          run.st = "thrown" /\ run.sent = 1

\* The transaction was mined and reverted, no code is at the predicted
\* address, and deployViaCreate2 has thrown.
C22_Witness ==
    /\ run.st = "thrown"
    /\ run.sent = 1
    /\ run.error = "contract not found at expected address"
    /\ ~isContractDeployed(chainCode, run.expectedAddress)

\* ------------------------------------------------------------------ C23
\* C23: deployFactoryDeterministic has thrown "deployer not available" only
\* with no transaction sent and no deployment started, and has gone past its
\* check only on a chain that has the proxy; deployViaCreate2 has thrown
\* "deployer not available" only with no transaction sent; and no transaction
\* has been sent on a chain without the proxy.
C23_NoTransactionWithoutDeployer ==
    /\ fd.error = "Deterministic deployer not available on this chain" =>
          fd.pc = "thrown" /\ fd.sent = 0 /\ fd.impls = <<>> /\ fd.factoryCalls = 0
    /\ fd.pc \in {"implementations", "checkFactory", "factory", "returned"} =>
          isDeployerAvailable(chainCode)
    /\ run.error = "Deterministic deployer not available" =>
          run.st = "thrown" /\ run.sent = 0 /\ run.txHash = NoTx
    /\ run.st \in {"send", "wait", "verify"} => isDeployerAvailable(chainCode)
    /\ ~isDeployerAvailable(chainCode) => txs = <<>>

\* On a chain without the proxy a deployViaCreate2 call and then a
\* deployFactoryDeterministic call have thrown, and no transaction was sent.
C23_Witness ==
    /\ ~isDeployerAvailable(chainCode)
    /\ fd.pc = "thrown"
    /\ fd.error = "Deterministic deployer not available on this chain"
    /\ run.st = "thrown"
    /\ run.error = "Deterministic deployer not available"
    /\ txs = <<>>

\* ------------------------------------------------------------------ C24
\* The address deployViaCreate2 gives the i-th implementation.
ImplementationAddress(i) ==
    computeCreate2Address(DETERMINISTIC_DEPLOYER, ImplementationCalls[i].salt,
                          Bytecode(ImplementationCalls[i].artifact))

\* C24: deployFactoryDeterministic has predicted no factory address and
\* started no factory deployment before its three implementation calls have
\* returned, token, governor, timelock in this order, each with code at its
\* address; it returns alreadyDeployed = true exactly when it found code at
\* the predicted address, and then it has started no factory deployment, its
\* txHash is null, and the factory and implementation addresses are those of
\* the run that deployed them.
C24_ImplementationsFirstThenShortCircuit ==
    /\ fd.pc \in {"idle", "checkDeployer", "implementations"} =>
          fd.predicted = <<>> /\ fd.factoryCalls = 0 /\ Len(fd.impls) < 3
    /\ fd.pc \in {"checkFactory", "factory", "returned"} =>
          /\ fd.impls = <<ImplementationAddress(1), ImplementationAddress(2),
                          ImplementationAddress(3)>>
          /\ \A i \in 1..3 : isContractDeployed(chainCode, fd.impls[i])
    /\ fd.pc = "returned" =>
          /\ fd.alreadyDeployed <=> fd.existed
          /\ isContractDeployed(chainCode, fd.factory)
          /\ fd.alreadyDeployed =>
                /\ fd.factoryCalls = 0
                /\ fd.txHash = NoTx
                /\ fd.factory = fd.predicted
                /\ fd.salt \in DOMAIN fd.deployed =>
                      fd.deployed[fd.salt] = [factory |-> fd.factory, impls |-> fd.impls]

\* A second run with the salt of the first, which had deployed the factory,
\* has returned alreadyDeployed = true without sending any transaction.
C24_Witness ==
    /\ fd.pc = "returned"
    /\ fd.runs = 2
    /\ fd.alreadyDeployed
    /\ fd.sent = 0
    /\ fd.salt \in DOMAIN fd.deployed
    /\ fd.txHash = NoTx

\* ------------------------------------------------------------------ C25
\* C25 as stated: a write of a record with a required field missing throws
\* and the files are those of the records written before; and no read of a
\* file that writeDeploymentRecord has written is rejected.
C25_WrittenFilesAreReadable ==
    /\ DOMAIN files = DOMAIN recordAt
    /\ (lastOp.op = "read" /\ lastOp.path \in DOMAIN recordAt) => lastOp.ok

\* C25, amended: a write of a record without network.name or without
\* network.chainId throws; the files on disk are exactly those of the
\* records whose write did not throw, so a write that throws writes neither
\* file; and a read of a written file is rejected exactly when the written
\* record's schemaVersion is not 1 or its factory.address is missing, neither
\* of which writeDeploymentRecord checks.
C25_WriteValidatesNetworkOnly ==
    /\ lastOp.op = "write" =>
          /\ ~Truthy(Prop(lastOp.record, "network.name")) =>
                ~lastOp.ok /\ lastOp.err = "Deployment record missing network.name"
          /\ ~Truthy(Prop(lastOp.record, "network.chainId")) => ~lastOp.ok
          /\ lastOp.ok =>
                /\ recordAt[lastOp.latestPath] = lastOp.record
                /\ recordAt[lastOp.timestampedPath] = lastOp.record
    /\ DOMAIN files = DOMAIN recordAt
    /\ \A path \in DOMAIN files : files[path] = stringifyWithBigInt(recordAt[path])
    /\ (lastOp.op = "read" /\ lastOp.path \in DOMAIN recordAt) =>
          (lastOp.ok <=> /\ Prop(recordAt[lastOp.path], "schemaVersion") = Num(DEPLOYMENT_SCHEMA_VERSION)
                         /\ Truthy(Prop(recordAt[lastOp.path], "factory.address")))

\* A record without factory.address was written, and the read of its file
\* has been rejected.
C25_Witness ==
    /\ lastOp.op = "read"
    /\ lastOp.path \in DOMAIN recordAt
    /\ ~Truthy(Prop(recordAt[lastOp.path], "factory.address"))
    /\ ~lastOp.ok
    /\ lastOp.err = "Deployment record missing factory.address"

\* ------------------------------------------------------------------ C26
\* The loops that wait are bounded: waitForCode polls for at most timeoutMs
\* plus one interval and throws when it gives up; a status poll sends at most
\* its maximum number of requests, a retry loop at most maxRetries (3)
\* submissions, each followed by at most one status poll; neither throws.
LoopsAreBounded ==
    /\ drv.elapsed <= timeoutMs + pollMs
    /\ drv.polls * pollMs <= timeoutMs + 2 * pollMs
    /\ drv.pc = "thrown" /\ drv.polls > 0 => drv.err = "Timed out waiting for bytecode"
    /\ vf.i <= vf.checks
    /\ vf.attempt <= maxRetries
    /\ vf.submissions <= maxRetries
    /\ vf.statusRequests <= (IF vf.fn = "status" THEN 1 ELSE maxRetries) * vf.checks
    /\ Len(vf.waits) < maxRetries
    /\ ~vf.thrown

\* The timeout that deployViaCreate2 sets for its confirmation wait.
ConfirmationTimeout == Prop(run.receiptOptions, "timeout")

\* C26 as stated: every wait has an explicit limit, the confirmation wait of
\* deployViaCreate2 included.
C26_EveryWaitHasExplicitLimit ==
    /\ LoopsAreBounded
    /\ run.st = "wait" => ConfirmationTimeout # Undefined

\* C26, amended: the bytecode poll, the status polls and the submission retry
\* loops end after their explicit timeout or maximum attempt count; the
\* confirmation wait of deployViaCreate2 is one call of
\* waitForTransactionReceipt with the transaction's hash and no timeout, which
\* the script leaves only when the client returns the receipt or throws.
C26_LoopsBoundedConfirmationWaitUnlimited ==
    /\ LoopsAreBounded
    /\ run.st = "wait" =>
          /\ DOMAIN run.receiptOptions = {"hash"}
          /\ run.receiptOptions["hash"] = run.txHash
          /\ ConfirmationTimeout = Undefined
    /\ run.error = "WaitForTransactionReceiptTimeout" => run.st = "thrown"

\* deployViaCreate2 has sent its transaction and waits for the receipt.
C26_Witness ==
    /\ run.st = "wait"
    /\ run.sent = 1
    /\ Len(txs) = 1

\* ------------------------------------------------------------------ C27
\* C27: a run of deploy-and-create calls writeDeploymentRecord at most once,
\* and only after deployFactoryDeterministic, createDAO and getChainId have
\* returned; a run that exits with status 0 has written its record once; when
\* deployFactoryDeterministic or createDAO throws, no write is attempted, the
\* record files are what they were when the run started, and the run exits
\* with status 1.
C27_RecordWrittenOnceAfterBothSteps ==
    /\ writes <= flow.writesAtStart + 1
    /\ writes > flow.writesAtStart =>
          /\ flow.pc \in {"summary", "catch", "exited"}
          /\ flow.threwAt \in {"", "writeDeploymentRecord"}
          /\ flow.daoResult \in DaoResults
    /\ files # flow.filesAtStart => flow.threwAt = "" /\ writes = flow.writesAtStart + 1
    /\ (flow.pc = "exited" /\ flow.exitCode = 0) =>
          /\ writes = flow.writesAtStart + 1
          /\ flow.threwAt = ""
          /\ flow.latestPath \in DOMAIN files
          /\ files[flow.latestPath] = stringifyWithBigInt(flow.record)
    /\ flow.threwAt \in {"deployFactoryDeterministic", "createDAO"} =>
          /\ flow.pc \in {"catch", "exited"}
          /\ writes = flow.writesAtStart
          /\ files = flow.filesAtStart
          /\ flow.pc = "exited" => flow.exitCode = 1

\* A first run has written its record; in the second run createDAO threw and
\* the run exited with status 1, the files of the first run untouched.
C27_Witness ==
    /\ flow.runs = 2
    /\ flow.pc = "exited"
    /\ flow.exitCode = 1
    /\ flow.threwAt = "createDAO"
    /\ writes = 1
    /\ files # EmptyFn
    /\ files = flow.filesAtStart

\* ------------------------------------------------------------------ C28
\* C28: the record deploy-and-create has written holds a value at every
\* property that verify-all reads from it, and verify-all, reading the record
\* back, passes on no undefined argument.
C28_RecordHasEveryFieldRead ==
    /\ flow.pc = "summary" =>
          \A k \in VerifyAllReads : VerifyAllArguments(flow.record)[k] # Undefined
    /\ (flow.verified /\ flow.arguments # EmptyFn) =>
          \A k \in VerifyAllReads : flow.arguments[k] # Undefined

\* ------------------------------------------------------------------ C29
\* C29: the addresses the driver holds once it has them are those of the DAO
\* that its own transaction created.
C29_AddressesOfOwnDAO ==
    drv.pc \in {"run", "returned"} => drv.addresses = Addresses(Confirmed(drv.prior))

\* ------------------------------------------------------------------ C30
\* C30 as stated: a transfer to an account that had a delegate leaves that
\* delegate in place, whether or not the account had received tokens before.
C30_ChosenDelegateNeverReplaced ==
    (dao.lastOp.op = "transfer" /\ dao.lastOp.ok /\ dao.lastOp.before # ZeroAddress) =>
        delegates(dao.token, dao.lastOp.to) = dao.lastOp.before

\* C30, amended: a transfer to an account that had a delegate and had
\* received tokens before leaves that delegate in place; a delegate chosen
\* before the first receipt is replaced by the account itself on that receipt.
C30_ChosenDelegateKeptAfterFirstReceipt ==
    (dao.lastOp.op = "transfer" /\ dao.lastOp.ok /\ dao.lastOp.before # ZeroAddress) =>
        delegates(dao.token, dao.lastOp.to) =
            IF dao.lastOp.first THEN dao.lastOp.to ELSE dao.lastOp.before

\* bob, who had delegated to alice before receiving any token, has received
\* his first token and is now his own delegate.
C30_Witness ==
    /\ dao.lastOp.op = "transfer"
    /\ dao.lastOp.ok
    /\ dao.lastOp.first
    /\ dao.lastOp.value = 1
    /\ dao.lastOp.to = EOA("bob")
    /\ dao.lastOp.before = EOA("alice")
    /\ delegates(dao.token, EOA("bob")) = EOA("bob")

====
